---- MODULE Spec2Model ----
(***************************************************************************)
(* Bill-coverage evaluation engine, market-price comparator and billing    *)
(* record store of the medical billing service                             *)
(* (app/services/billing_service.py,                                       *)
(* app/services/cost_analysis_service.py, app/core/*.py,                   *)
(* app/routes/billing.py).                                                 *)
(*                                                                         *)
(* Representation.                                                         *)
(*  - A Python str is a sequence of one-character strings, so that         *)
(*    str.strip(), str.lower(), "in" and str.split() are computed.         *)
(*  - Money is an integer number of thousandths of a currency unit         *)
(*    ("mills"): Decimal arithmetic on values with at most three decimal   *)
(*    places is exact, and so is integer arithmetic on mills.  A cent is   *)
(*    10 mills.                                                            *)
(*  - A percentage is an integer number of hundredths of a percent.        *)
(*  - A Python exception is the record Raise(type, message); a normal      *)
(*    return is Ok(value).  None is the record NoneV and an Optional       *)
(*    value that is present is Some(v).                                    *)
(***************************************************************************)
EXTENDS Integers, Sequences, FiniteSets, TLC

\* ------------------------------------------------------------------ values

Ok(v) == [tag |-> "ok", val |-> v]

Raise(e, m) == [tag |-> "raise", exc |-> e, msg |-> m]

IsOk(r) == r.tag = "ok"

NoneV == [some |-> FALSE]

Some(v) == [some |-> TRUE, v |-> v]

Mills(units) == units * 1000

CentsToMills(c) == c * 10

Percent(p) == p * 100

SetMin(S) == CHOOSE x \in S : \A y \in S : x <= y

SetMax(S) == CHOOSE x \in S : \A y \in S : x >= y

\* Min2 with the limit ignored: the billed cost is claimed in full
Min2IgnoresLimit(a, b) == a

Min2(a, b) == IF a <= b THEN a ELSE b

\* ------------------------------------------------------------------ str

UpperCase ==
    <<"A","B","C","D","E","F","G","H","I","J","K","L","M",
      "N","O","P","Q","R","S","T","U","V","W","X","Y","Z">>

LowerCase ==
    <<"a","b","c","d","e","f","g","h","i","j","k","l","m",
      "n","o","p","q","r","s","t","u","v","w","x","y","z">>

LowerChar(c) ==
    IF \E i \in DOMAIN UpperCase : UpperCase[i] = c
    THEN LowerCase[CHOOSE i \in DOMAIN UpperCase : UpperCase[i] = c]
    ELSE c

\* str.lower()
lower(s) == [i \in 1..Len(s) |-> LowerChar(s[i])]

IsSpace(c) == c \in {" ", "\t"}

\* str.strip()
strip(s) ==
    LET keep == {i \in 1..Len(s) : ~IsSpace(s[i])}
    IN  IF keep = {} THEN <<>> ELSE SubSeq(s, SetMin(keep), SetMax(keep))

\* sub in s
Contains(s, sub) ==
    \E i \in 1..(Len(s) - Len(sub) + 1) : SubSeq(s, i, i + Len(sub) - 1) = sub

\* {f(x) for x in seq}
Range(seq) == {seq[i] : i \in DOMAIN seq}

\* ------------------------------------------------------------------ names

S_General_Consultation ==
    <<"G","e","n","e","r","a","l"," ","C","o","n","s","u","l","t","a","t","i","o","n">>

S_Blood_Test ==
    <<"B","l","o","o","d"," ","T","e","s","t">>

S_MRI_Scan ==
    <<"M","R","I"," ","S","c","a","n">>

S_CT_Scan ==
    <<"C","T"," ","S","c","a","n">>

S_ICU_Charges ==
    <<"I","C","U"," ","C","h","a","r","g","e","s">>

S_Minor_Surgery ==
    <<"M","i","n","o","r"," ","S","u","r","g","e","r","y">>

S_Major_Surgery ==
    <<"M","a","j","o","r"," ","S","u","r","g","e","r","y">>

S_Knee_Replacement_Surgery ==
    <<"K","n","e","e"," ","R","e","p","l","a","c","e","m","e","n","t"," ","S","u","r","g","e","r","y">>

S_Cosmetic_Surgery ==
    <<"C","o","s","m","e","t","i","c"," ","S","u","r","g","e","r","y">>

S_Fertility_Treatment ==
    <<"F","e","r","t","i","l","i","t","y"," ","T","r","e","a","t","m","e","n","t">>

S_Experimental_Procedures ==
    <<"E","x","p","e","r","i","m","e","n","t","a","l"," ","P","r","o","c","e","d","u","r","e","s">>

S_Experimental_Treatment ==
    <<"E","x","p","e","r","i","m","e","n","t","a","l"," ","T","r","e","a","t","m","e","n","t">>

S_Gloves ==
    <<"G","l","o","v","e","s">>

S_Masks ==
    <<"M","a","s","k","s">>

S_Sanitizer ==
    <<"S","a","n","i","t","i","z","e","r">>

S_Administrative_Charges ==
    <<"A","d","m","i","n","i","s","t","r","a","t","i","v","e"," ","C","h","a","r","g","e","s">>

S_Registration_Fees ==
    <<"R","e","g","i","s","t","r","a","t","i","o","n"," ","F","e","e","s">>

S_Sanitization_Charges ==
    <<"S","a","n","i","t","i","z","a","t","i","o","n"," ","C","h","a","r","g","e","s">>

S_Unknown_Treatment ==
    <<"U","n","k","n","o","w","n"," ","T","r","e","a","t","m","e","n","t">>

S_mri_scan_padded ==
    <<" ","m","r","i"," ","s","c","a","n"," ">>

S_icu_charges_padded ==
    <<" ","i","c","u"," ","c","h","a","r","g","e","s"," ">>

S_GLOVES ==
    <<"G","L","O","V","E","S">>

S_cosmetic_surgery ==
    <<"c","o","s","m","e","t","i","c"," ","s","u","r","g","e","r","y">>

S_blank ==
    <<" ">>

\* ------------------------------------------------------------------ app/core/cost_database.py

\* A reference data store whose Gloves entry has its average above its maximum
LOCAL_COST_DATABASE_average_above_max ==
    << [name |-> S_MRI_Scan, average_cost |-> 9000, min_cost |-> 7000, max_cost |-> 15000],
       [name |-> S_Blood_Test, average_cost |-> 1000, min_cost |-> 600, max_cost |-> 1800],
       [name |-> S_Gloves, average_cost |-> 300, min_cost |-> 50, max_cost |-> 200] >>

\* LOCAL_COST_DATABASE, in insertion order; costs in currency units
LOCAL_COST_DATABASE ==
    << [name |-> S_MRI_Scan, average_cost |-> 9000, min_cost |-> 7000, max_cost |-> 15000],
       [name |-> S_Blood_Test, average_cost |-> 1000, min_cost |-> 600, max_cost |-> 1800],
       [name |-> S_ICU_Charges, average_cost |-> 8000, min_cost |-> 5000, max_cost |-> 12000],
       [name |-> S_CT_Scan, average_cost |-> 8000, min_cost |-> 6000, max_cost |-> 12000],
       [name |-> S_Gloves, average_cost |-> 100, min_cost |-> 50, max_cost |-> 200],
       [name |-> S_Administrative_Charges, average_cost |-> 500, min_cost |-> 200, max_cost |-> 800],
       [name |-> S_General_Consultation, average_cost |-> 1200, min_cost |-> 800, max_cost |-> 1800],
       [name |-> S_Knee_Replacement_Surgery, average_cost |-> 100000, min_cost |-> 80000, max_cost |-> 150000],
       [name |-> S_Minor_Surgery, average_cost |-> 30000, min_cost |-> 15000, max_cost |-> 60000] >>

\* _validate_item_name: the stripped name, or ValueError when it is blank
\* (names are str throughout the model, so the isinstance branch is not taken)
_validate_item_name(item_name) ==
    IF strip(item_name) = <<>>
    THEN Raise("ValueError", "item_name cannot be empty")
    ELSE Ok(strip(item_name))

\* get_local_cost_info matching a key that contains the name or is contained
\* in it
get_local_cost_info_substring(item_name) ==
    LET v == _validate_item_name(item_name)
    IN  IF ~IsOk(v) THEN v
        ELSE LET normalized == lower(v.val)
                 hits == {i \in DOMAIN LOCAL_COST_DATABASE :
                             \/ Contains(lower(LOCAL_COST_DATABASE[i].name), normalized)
                             \/ Contains(normalized, lower(LOCAL_COST_DATABASE[i].name))}
             IN  IF hits = {} THEN Ok(NoneV)
                 ELSE Ok(Some(LOCAL_COST_DATABASE[SetMax(hits)]))

\* get_local_cost_info: case-insensitive exact lookup; the dict comprehension
\* keeps the last entry among keys that agree after lower()
get_local_cost_info(item_name) ==
    LET v == _validate_item_name(item_name)
    IN  IF ~IsOk(v) THEN v
        ELSE LET normalized == lower(v.val)
                 hits == {i \in DOMAIN LOCAL_COST_DATABASE :
                             lower(LOCAL_COST_DATABASE[i].name) = normalized}
             IN  IF hits = {} THEN Ok(NoneV)
                 ELSE Ok(Some(LOCAL_COST_DATABASE[SetMax(hits)]))

\* ------------------------------------------------------------------ app/services/cost_analysis_service.py

\* CostStatus with the boundaries counted into the higher band
CostStatusInclusive(billed_cost, average_cost, max_cost) ==
    IF billed_cost >= max_cost THEN "highly_overpriced"
    ELSE IF billed_cost >= average_cost THEN "slightly_overpriced"
    ELSE "within_market_range"

\* The status chain of analyze_cost_efficiency (lines 56-62); all in mills
CostStatus(billed_cost, average_cost, max_cost) ==
    IF billed_cost > max_cost THEN "highly_overpriced"
    ELSE IF billed_cost > average_cost THEN "slightly_overpriced"
    ELSE "within_market_range"

\* NotPositive with zero let through
NotPositiveLetsZeroThrough(billed_cost) == billed_cost < 0

\* Line 41: the guard on the billed cost
NotPositive(billed_cost) == billed_cost <= 0

\* analyze_cost_efficiency(item_name, billed_cost), billed_cost a number in mills
analyze_cost_efficiency(item_name, billed_cost) ==
    IF NotPositive(billed_cost)
    THEN Raise("ValueError", "billed_cost must be greater than 0")
    ELSE LET cost_info == get_local_cost_info(item_name)
         IN  IF ~IsOk(cost_info) THEN cost_info
             ELSE IF cost_info.val = NoneV THEN Ok(NoneV)
             ELSE LET info == cost_info.val.v
                  IN  Ok(Some([item_name |-> item_name,
                               billed_cost |-> billed_cost,
                               average_cost |-> Mills(info.average_cost),
                               min_cost |-> Mills(info.min_cost),
                               max_cost |-> Mills(info.max_cost),
                               status |-> CostStatus(billed_cost,
                                                     Mills(info.average_cost),
                                                     Mills(info.max_cost))]))

\* ------------------------------------------------------------------ app/core/insurance_policy.py

\* INSURANCE_POLICY; coverage_limits in insertion order, limits in currency
\* units, co_payment_percentage in percent
INSURANCE_POLICY ==
    [coverage_limits |->
        << <<S_General_Consultation, 2000>>, <<S_Blood_Test, 3000>>,
           <<S_MRI_Scan, 18000>>, <<S_CT_Scan, 15000>>,
           <<S_ICU_Charges, 10000>>, <<S_Minor_Surgery, 50000>>,
           <<S_Major_Surgery, 200000>>, <<S_Knee_Replacement_Surgery, 150000>> >>,
     exclusions |->
        << S_Cosmetic_Surgery, S_Fertility_Treatment,
           S_Experimental_Procedures, S_Experimental_Treatment >>,
     non_payable_items |->
        << S_Gloves, S_Masks, S_Sanitizer, S_Administrative_Charges,
           S_Registration_Fees, S_Sanitization_Charges >>,
     co_payment_percentage |-> 15]

\* _validate_name(name, field_label=...)
_validate_name(name, cannot_be_empty) ==
    IF strip(name) = <<>>
    THEN Raise("ValueError", cannot_be_empty)
    ELSE Ok(strip(name))

is_treatment_excluded(name) ==
    LET v == _validate_name(name, "treatment name cannot be empty")
    IN  IF ~IsOk(v) THEN v
        ELSE Ok(lower(v.val) \in {lower(item) : item \in Range(INSURANCE_POLICY.exclusions)})

is_treatment_covered(name) ==
    LET v == _validate_name(name, "treatment name cannot be empty")
    IN  IF ~IsOk(v) THEN v
        ELSE IF lower(v.val) \notin
                   {lower(kv[1]) : kv \in Range(INSURANCE_POLICY.coverage_limits)}
             THEN Ok(FALSE)
        ELSE IF is_treatment_excluded(name).val THEN Ok(FALSE)
        ELSE Ok(TRUE)

\* get_coverage_limit: Some(limit in mills) or None; the dict comprehension
\* keeps the last entry among keys that agree after lower()
get_coverage_limit(name) ==
    LET v == _validate_name(name, "treatment name cannot be empty")
    IN  IF ~IsOk(v) THEN v
        ELSE LET cl == INSURANCE_POLICY.coverage_limits
                 hits == {i \in DOMAIN cl : lower(cl[i][1]) = lower(v.val)}
             IN  IF hits = {} THEN Ok(NoneV)
                 ELSE Ok(Some(Mills(cl[SetMax(hits)][2])))

is_non_payable_item(name) ==
    LET v == _validate_name(name, "item name cannot be empty")
    IN  IF ~IsOk(v) THEN v
        ELSE Ok(lower(v.val) \in
                  {lower(item) : item \in Range(INSURANCE_POLICY.non_payable_items)})

\* get_co_payment_percentage answering 10 percent
get_co_payment_percentage_ten == Percent(10)

\* get_co_payment_percentage, in hundredths of a percent
get_co_payment_percentage == Percent(INSURANCE_POLICY.co_payment_percentage)

\* ------------------------------------------------------------------ app/core/policy_model.py

\* An InsurancePolicyModel instance: coverage_limits as <<name, limit in
\* mills>> pairs in dict order, co_payment_percentage in hundredths of a percent
InsurancePolicyModel(coverage_limits, exclusions, non_payable_items, co_payment_percentage) ==
    [coverage_limits |-> coverage_limits,
     exclusions |-> exclusions,
     non_payable_items |-> non_payable_items,
     co_payment_percentage |-> co_payment_percentage]

_normalize_name(name) ==
    IF strip(name) = <<>>
    THEN Raise("ValueError", "treatment_name cannot be empty")
    ELSE Ok(strip(name))

\* InsurancePolicyModel.validate_treatment
validate_treatment(self, treatment_name) ==
    LET v == _normalize_name(treatment_name)
    IN  IF ~IsOk(v) THEN v
        ELSE IF lower(v.val) \in {lower(n) : n \in Range(self.exclusions)}
             THEN Ok(FALSE)
        ELSE Ok(lower(v.val) \in {lower(kv[1]) : kv \in Range(self.coverage_limits)})

\* InsurancePolicyModel.get_coverage_limit: the first key, in dict order,
\* that agrees with the name after lower()
model_get_coverage_limit(self, treatment_name) ==
    LET v == _normalize_name(treatment_name)
    IN  IF ~IsOk(v) THEN v
        ELSE LET cl == self.coverage_limits
                 hits == {i \in DOMAIN cl : lower(cl[i][1]) = lower(v.val)}
             IN  IF hits = {} THEN Ok(NoneV)
                 ELSE Ok(Some(cl[SetMin(hits)][2]))

\* ------------------------------------------------------------------ app/services/billing_service.py: policy-aware helpers
\* Each takes as `policy` the value its call of _get_active_policy() returned.

\* _is_treatment_excluded_policy comparing names as written, case and all
_is_treatment_excluded_policy_case_sensitive(policy, name) ==
    IF policy # NoneV
    THEN Ok(strip(name) \in Range(policy.exclusions))
    ELSE is_treatment_excluded(name)

_is_treatment_excluded_policy(policy, name) ==
    IF policy # NoneV
    THEN Ok(lower(strip(name)) \in {lower(n) : n \in Range(policy.exclusions)})
    ELSE is_treatment_excluded(name)

\* _is_treatment_covered_policy without the exclusion check
_is_treatment_covered_policy_limit_only(policy, name) ==
    IF policy # NoneV
    THEN Ok(lower(strip(name)) \in {lower(kv[1]) : kv \in Range(policy.coverage_limits)})
    ELSE is_treatment_covered(name)

_is_treatment_covered_policy(policy, name) ==
    IF policy # NoneV
    THEN IF lower(strip(name)) \in {lower(n) : n \in Range(policy.exclusions)}
         THEN Ok(FALSE)
         ELSE Ok(lower(strip(name)) \in
                   {lower(kv[1]) : kv \in Range(policy.coverage_limits)})
    ELSE is_treatment_covered(name)

_get_coverage_limit_policy(policy, name) ==
    IF policy # NoneV
    THEN model_get_coverage_limit(policy, name)
    ELSE get_coverage_limit(name)

\* _is_non_payable_item_policy asking the built-in policy whatever is loaded
_is_non_payable_item_policy_builtin_only(policy, name) == is_non_payable_item(name)

_is_non_payable_item_policy(policy, name) ==
    IF policy # NoneV
    THEN Ok(lower(strip(name)) \in {lower(n) : n \in Range(policy.non_payable_items)})
    ELSE is_non_payable_item(name)

_get_co_payment_percentage_policy(policy) ==
    IF policy # NoneV
    THEN policy.co_payment_percentage
    ELSE get_co_payment_percentage

\* ------------------------------------------------------------------ decimal

\* HalfEven with ties rounded up (ROUND_HALF_UP)
HalfUp(q, r, d) == IF 2 * r < d THEN q ELSE q + 1

\* The integer nearest to q + r/d, 0 <= r < d, ties to the even neighbour
\* (decimal.ROUND_HALF_EVEN, the rounding of the default context)
HalfEven(q, r, d) ==
    IF 2 * r < d THEN q
    ELSE IF 2 * r > d THEN q + 1
    ELSE IF q % 2 = 0 THEN q ELSE q + 1

\* (n mills).quantize(Decimal("0.01")), the result again in mills
Quantize(n) == CentsToMills(HalfEven(n \div 10, n % 10, 10))

\* (total * (percentage / 100)).quantize(Decimal("0.01")) for total in mills
\* and percentage in hundredths of a percent, the result in mills: the exact
\* product is total * percentage / 10^5 cents.  total is split at 10^5,
\* total = a * 10^5 + b, so that the quotient a * percentage + (b *
\* percentage) div 10^5 and the remainder (b * percentage) mod 10^5 are
\* computed within 32-bit integers.
QuantizeShare(total, percentage) ==
    LET a == total \div 100000
        b == total % 100000
    IN  CentsToMills(HalfEven(a * percentage + (b * percentage) \div 100000,
                              (b * percentage) % 100000,
                              100000))

\* ------------------------------------------------------------------ app/services/billing_service.py: analyze_medical_bill
\* The evaluation is a frame (program position and the function's locals)
\* and one transformer per stretch of code between two reads of the
\* active-policy slot.  A bill is [treatments, other_items], each a sequence
\* of [name, cost] with cost in mills.

\* A cost at the upper end of Decimal's exponent range (9E+999999)
Huge == 2000000000

\* a + b in the default Decimal context (lines 315, 399): a sum beyond the
\* exponent range raises decimal.Overflow, and a cost of the model's bills
\* added to Huge is lost in rounding to 28 digits
DecimalAdd(a, b) ==
    IF a >= Huge /\ b >= Huge THEN Raise("Overflow", "decimal.Overflow")
    ELSE IF a >= Huge \/ b >= Huge THEN Ok(Huge)
    ELSE Ok(a + b)

\* No call in progress
IdleFrame ==
    [pc |-> "idle", i |-> 1,
     total_bill_amount |-> 0,
     total_claimable_before_copay |-> 0,
     excluded_items |-> <<>>,
     non_payable_items |-> <<>>,
     coverage_breakdown |-> <<>>,
     cost_efficiency_warnings |-> <<>>,
     outcome |-> NoneV]

\* NewFrame with the result lists shared between calls
NewFrameSharedLists(previous) ==
    [IdleFrame EXCEPT !.pc = "start",
                      !.excluded_items = previous.excluded_items,
                      !.non_payable_items = previous.non_payable_items,
                      !.cost_efficiency_warnings = previous.cost_efficiency_warnings]

\* Lines 303-309: the locals at function entry.  They are created by the
\* call; nothing of `previous`, the frame the previous call left, is kept.
NewFrame(previous) == [IdleFrame EXCEPT !.pc = "start"]

\* Fail without the except clauses: the exception leaves as it is
FailUnwrapped(f, r) == [f EXCEPT !.pc = "done", !.outcome = r]

\* An exception leaving the function body: ValueError is re-raised unchanged,
\* anything else is wrapped into RuntimeError (lines 453-458)
Fail(f, r) ==
    [f EXCEPT !.pc = "done",
              !.outcome = IF r.exc = "ValueError" THEN r
                          ELSE Raise("RuntimeError", "Error analyzing medical bill")
                                  @@ [cause |-> r]]

\* Enter without the guard: the loop over no treatments runs zero times
EnterUnguarded(bill, f) ==
    IF bill.treatments # <<>> THEN [f EXCEPT !.pc = "excluded", !.i = 1]
    ELSE IF bill.other_items # <<>> THEN [f EXCEPT !.pc = "non_payable", !.i = 1]
    ELSE [f EXCEPT !.pc = "copay"]

\* Lines 299-301: the guard on an empty treatments list
Enter(bill, f) ==
    IF bill.treatments = <<>>
    THEN Fail(f, Raise("ValueError", "Medical bill must contain at least one treatment"))
    ELSE [f EXCEPT !.pc = "excluded", !.i = 1]

\* Loop control after treatment i (lines 312, 396)
AfterTreatment(bill, f) ==
    IF f.i < Len(bill.treatments)
    THEN [f EXCEPT !.pc = "excluded", !.i = f.i + 1]
    ELSE IF bill.other_items # <<>>
         THEN [f EXCEPT !.pc = "non_payable", !.i = 1]
         ELSE [f EXCEPT !.pc = "copay"]

\* Loop control after other item i (lines 396, 429)
AfterOtherItem(bill, f) ==
    IF f.i < Len(bill.other_items)
    THEN [f EXCEPT !.pc = "non_payable", !.i = f.i + 1]
    ELSE [f EXCEPT !.pc = "copay"]

\* Lines 318-328: mean_cost of the breakdown entry; a comparator failure is
\* swallowed and leaves 0.0
MeanCost(name, cost) ==
    LET cost_analysis == analyze_cost_efficiency(name, cost)
    IN  IF IsOk(cost_analysis) /\ cost_analysis.val # NoneV
        THEN cost_analysis.val.v.average_cost
        ELSE 0

\* The coverage_breakdown dict (lines 340-348, 361-369, 374-382)
BreakdownEntry(name, cost, coverage_limit, claimable) ==
    [treatment_name |-> name,
     billed_cost |-> cost,
     coverage_limit |-> coverage_limit,
     claimable_amount |-> claimable,
     mean_cost |-> MeanCost(name, cost),
     std_dev |-> 0,
     historical_trend |-> <<>>]

\* TreatmentWarning appending whatever status the comparator returned
TreatmentWarningAnyStatus(f, name, cost) ==
    LET analysis == analyze_cost_efficiency(name, cost)
    IN  IF IsOk(analysis) /\ analysis.val # NoneV
        THEN [f EXCEPT !.cost_efficiency_warnings =
                 Append(@, [item_type |-> "treatment"] @@ analysis.val.v)]
        ELSE f

\* Lines 385-393: the cost-efficiency warning of a treatment
TreatmentWarning(f, name, cost) ==
    LET analysis == analyze_cost_efficiency(name, cost)
    IN  IF IsOk(analysis) /\ analysis.val # NoneV
           /\ analysis.val.v.status # "within_market_range"
        THEN [f EXCEPT !.cost_efficiency_warnings =
                 Append(@, [item_type |-> "treatment"] @@ analysis.val.v)]
        ELSE f

\* Lines 313-349: add the cost, ask the policy whether the treatment is excluded
TreatmentExcluded(policy, bill, f) ==
    LET name == bill.treatments[f.i].name
        cost == bill.treatments[f.i].cost
        sum == DecimalAdd(f.total_bill_amount, cost)
        g == [f EXCEPT !.total_bill_amount = sum.val]
        excluded == _is_treatment_excluded_policy(policy, name)
    IN  IF ~IsOk(sum) THEN Fail(f, sum)
        ELSE IF ~IsOk(excluded) THEN Fail(g, excluded)
        ELSE IF excluded.val
        THEN AfterTreatment(bill,
               TreatmentWarning(
                 [g EXCEPT !.excluded_items =
                              Append(@, [name |-> name, cost |-> cost,
                                         reason |-> "policy_exclusion"]),
                           !.coverage_breakdown =
                              Append(@, BreakdownEntry(name, cost, 0, 0))],
                 name, cost))
        ELSE [g EXCEPT !.pc = "covered"]

\* Lines 350, 371-383: ask the policy whether the treatment is covered
TreatmentCovered(policy, bill, f) ==
    LET name == bill.treatments[f.i].name
        cost == bill.treatments[f.i].cost
        covered == _is_treatment_covered_policy(policy, name)
    IN  IF ~IsOk(covered) THEN Fail(f, covered)
        ELSE IF covered.val THEN [f EXCEPT !.pc = "limit"]
        ELSE AfterTreatment(bill,
               TreatmentWarning(
                 [f EXCEPT !.coverage_breakdown =
                              Append(@, BreakdownEntry(name, cost, 0, 0))],
                 name, cost))

\* Lines 351-370: ask the policy for the limit, claim min(cost, limit)
TreatmentLimit(policy, bill, f) ==
    LET name == bill.treatments[f.i].name
        cost == bill.treatments[f.i].cost
        coverage_limit_value == _get_coverage_limit_policy(policy, name)
    IN  IF ~IsOk(coverage_limit_value) THEN Fail(f, coverage_limit_value)
        ELSE LET coverage_limit == IF coverage_limit_value.val # NoneV
                                   THEN coverage_limit_value.val.v ELSE 0
                 claimable == Min2(cost, coverage_limit)
             IN  AfterTreatment(bill,
                   TreatmentWarning(
                     [f EXCEPT !.total_claimable_before_copay = @ + claimable,
                               !.coverage_breakdown =
                                  Append(@, BreakdownEntry(name, cost,
                                                           coverage_limit, claimable))],
                     name, cost))

\* OtherItemNonPayable leaving the cost of a non-payable item out of the total
OtherItemNonPayableNotBilled(policy, bill, f) ==
    LET name == bill.other_items[f.i].name
        cost == bill.other_items[f.i].cost
        g == [f EXCEPT !.pc = "cost_check"]
        non_payable == _is_non_payable_item_policy(policy, name)
    IN  IF ~IsOk(non_payable) THEN Fail(g, non_payable)
        ELSE IF non_payable.val
        THEN [g EXCEPT !.non_payable_items =
                          Append(@, [name |-> name, cost |-> cost,
                                     reason |-> "non_payable_item"])]
        ELSE [g EXCEPT !.total_bill_amount = @ + cost]

\* Lines 397-409: add the cost, ask the policy whether the item is non-payable
OtherItemNonPayable(policy, bill, f) ==
    LET name == bill.other_items[f.i].name
        cost == bill.other_items[f.i].cost
        sum == DecimalAdd(f.total_bill_amount, cost)
        g == [f EXCEPT !.total_bill_amount = sum.val, !.pc = "cost_check"]
        non_payable == _is_non_payable_item_policy(policy, name)
    IN  IF ~IsOk(sum) THEN Fail(f, sum)
        ELSE IF ~IsOk(non_payable) THEN Fail(g, non_payable)
        ELSE IF non_payable.val
        THEN [g EXCEPT !.non_payable_items =
                          Append(@, [name |-> name, cost |-> cost,
                                     reason |-> "non_payable_item"])]
        ELSE g

\* Lines 413-427: the cost-efficiency warning of an other item; the policy is
\* asked again when the comparator returned a result, and every exception
\* in this stretch is swallowed
OtherItemCostCheck(policy, bill, f) ==
    LET name == bill.other_items[f.i].name
        cost == bill.other_items[f.i].cost
        analysis == analyze_cost_efficiency(name, cost)
        non_payable == _is_non_payable_item_policy(policy, name)
    IN  IF ~IsOk(analysis) \/ analysis.val = NoneV THEN AfterOtherItem(bill, f)
        ELSE IF ~IsOk(non_payable) THEN AfterOtherItem(bill, f)
        ELSE LET a == analysis.val.v
                 analysis_with_context ==
                    IF non_payable.val /\ a.status = "highly_overpriced"
                    THEN [item_type |-> "other_item", priority |-> "high",
                          alert |-> <<name, cost, a.average_cost>>] @@ a
                    ELSE [item_type |-> "other_item"] @@ a
             IN  IF a.status # "within_market_range"
                 THEN AfterOtherItem(bill,
                        [f EXCEPT !.cost_efficiency_warnings =
                                     Append(@, analysis_with_context)])
                 ELSE AfterOtherItem(bill, f)

\* NothingClaimable with a total of zero let through
NothingClaimableLetsZeroThrough(total_claimable_before_copay) == total_claimable_before_copay < 0

\* Line 429: the guard on the claimable total
NothingClaimable(total_claimable_before_copay) == total_claimable_before_copay <= 0

\* Lines 429-451: reject a bill without claimable total, apply the co-payment
CoPayment(policy, bill, f) ==
    IF NothingClaimable(f.total_claimable_before_copay)
    THEN Fail(f, Raise("ValueError", "No valid treatments for insurance coverage"))
    ELSE LET co_payment_percentage == _get_co_payment_percentage_policy(policy)
             co_payment_deducted ==
                QuantizeShare(f.total_claimable_before_copay, co_payment_percentage)
             total_claimable_after_copay ==
                Quantize(f.total_claimable_before_copay - co_payment_deducted)
         IN  [f EXCEPT !.pc = "done",
                       !.outcome =
                          Ok([total_bill_amount |-> f.total_bill_amount,
                              total_claimable_amount |-> total_claimable_after_copay,
                              co_payment_deducted |-> co_payment_deducted,
                              excluded_items |-> f.excluded_items,
                              non_payable_items |-> f.non_payable_items,
                              coverage_breakdown |-> f.coverage_breakdown,
                              cost_efficiency_warnings |-> f.cost_efficiency_warnings])]

\* One stretch of analyze_medical_bill, chosen by the program position
Advance(policy, bill, f) ==
    CASE f.pc = "start" -> Enter(bill, f)
      [] f.pc = "excluded" -> TreatmentExcluded(policy, bill, f)
      [] f.pc = "covered" -> TreatmentCovered(policy, bill, f)
      [] f.pc = "limit" -> TreatmentLimit(policy, bill, f)
      [] f.pc = "non_payable" -> OtherItemNonPayable(policy, bill, f)
      [] f.pc = "cost_check" -> OtherItemCostCheck(policy, bill, f)
      [] f.pc = "copay" -> CoPayment(policy, bill, f)
      [] OTHER -> f

RECURSIVE RunFrom(_, _, _)
RunFrom(policy, bill, f) ==
    IF f.pc = "done" THEN f ELSE RunFrom(policy, bill, Advance(policy, bill, f))

\* analyze_medical_bill(bill) when every read of the active-policy slot
\* during the call returns `policy`: the final frame
analyze_medical_bill(policy, bill) == RunFrom(policy, bill, NewFrame(IdleFrame))

\* ------------------------------------------------------------------ app/core/policy_parser.py
\* A policy document is [is_pdf, readable, lines]: whether the upload is a
\* PDF by name and content type, whether PdfReader can read it, and the text
\* lines of its pages.

Digits == <<"0","1","2","3","4","5","6","7","8","9">>

IsDigit(c) == \E i \in DOMAIN Digits : Digits[i] = c

DigitValue(c) == (CHOOSE i \in DOMAIN Digits : Digits[i] = c) - 1

RECURSIVE DigitsValue(_)
DigitsValue(s) ==
    IF s = <<>> THEN 0
    ELSE DigitsValue(SubSeq(s, 1, Len(s) - 1)) * 10 + DigitValue(s[Len(s)])

RECURSIVE Pow10(_)
Pow10(k) == IF k = 0 THEN 1 ELSE 10 * Pow10(k - 1)

\* s.split(sep, 1) for a one-character sep: <<s>> or <<before, after>>
split1(s, sep) ==
    LET at == {i \in 1..Len(s) : s[i] = sep}
    IN  IF at = {} THEN <<s>>
        ELSE <<SubSeq(s, 1, SetMin(at) - 1), SubSeq(s, SetMin(at) + 1, Len(s))>>

\* s.replace(ch, "") for a one-character ch
remove(s, ch) == SelectSeq(s, LAMBDA c : c # ch)

S_nan == <<"n","a","n">>

\* float(s) for the decimal literals [sign] digits [. digits] (at least one
\* digit), as the fraction n/d, and for [sign] "nan" in any case, as 0/0;
\* every other text of the model's documents (words, "10 percent", a second
\* sign) is a ValueError in Python as here.  Exponents, "inf" and digit-group
\* underscores are outside the model's documents.
float(s) ==
    LET t == strip(s)
        signed == t # <<>> /\ t[1] \in {"+", "-"}
        body == IF signed THEN SubSeq(t, 2, Len(t)) ELSE t
        parts == split1(body, ".")
        int_part == parts[1]
        frac_part == IF Len(parts) = 2 THEN parts[2] ELSE <<>>
        well_formed == /\ \A i \in DOMAIN int_part : IsDigit(int_part[i])
                       /\ \A i \in DOMAIN frac_part : IsDigit(frac_part[i])
                       /\ Len(int_part) + Len(frac_part) > 0
        magnitude == DigitsValue(int_part \o frac_part)
    IN  IF lower(body) = S_nan THEN Ok([n |-> 0, d |-> 0])
        ELSE IF ~well_formed THEN Raise("ValueError", "could not convert string to float")
        ELSE Ok([n |-> IF signed /\ t[1] = "-" THEN 0 - magnitude ELSE magnitude,
                 d |-> Pow10(Len(frac_part))])

\* The float nan among the model's integers: a value no amount or
\* percentage of the model's documents reaches
NaN == 0 - 2000000000

\* a < b on floats: every comparison with nan is False
FloatLess(a, b) == a # NaN /\ b # NaN /\ a < b

\* A parsed amount n/d in mills, and a parsed percentage in hundredths of a
\* percent (the model's documents carry at most 3 and 2 decimals)
AmountMills(x) == IF x.d = 0 THEN NaN ELSE (x.n * 1000) \div x.d

PercentHundredths(x) == IF x.d = 0 THEN NaN ELSE (x.n * 100) \div x.d

\* _extract_text (lines 14-34): the stripped non-empty lines
_extract_text(doc) ==
    IF ~doc.readable THEN Raise("ValueError", "Invalid or corrupted PDF file")
    ELSE LET lines == SelectSeq([i \in DOMAIN doc.lines |-> strip(doc.lines[i])],
                                LAMBDA l : l # <<>>)
         IN  IF lines = <<>>
             THEN Raise("ValueError", "Policy PDF appears to be empty or text could not be extracted")
             ELSE Ok(lines)

S_coverage == <<"c","o","v","e","r","a","g","e">>
S_limit == <<"l","i","m","i","t">>
S_coverage_limits == <<"c","o","v","e","r","a","g","e"," ","l","i","m","i","t","s">>
S_exclusions == <<"e","x","c","l","u","s","i","o","n","s">>
S_non_payable_items == <<"n","o","n"," ","p","a","y","a","b","l","e"," ","i","t","e","m","s">>
S_non_payable_items_hyphen == <<"n","o","n","-","p","a","y","a","b","l","e"," ","i","t","e","m","s">>
S_non_payable == <<"n","o","n"," ","p","a","y","a","b","l","e">>
S_copayment == <<"c","o","p","a","y","m","e","n","t">>
S_co_payment_hyphen == <<"c","o","-","p","a","y","m","e","n","t">>
S_co_payment_space == <<"c","o"," ","p","a","y","m","e","n","t">>

\* coverage_limits[name] = value: a dict keeps the position of an existing key
DictSet(dict, key, value) ==
    IF \E i \in DOMAIN dict : dict[i][1] = key
    THEN [i \in DOMAIN dict |-> IF dict[i][1] = key THEN <<key, value>> ELSE dict[i]]
    ELSE Append(dict, <<key, value>>)

\* The parser's locals before the first line (lines 70-75)
NewParse ==
    [coverage_limits |-> <<>>, exclusions |-> <<>>, non_payable_items |-> <<>>,
     co_payment_percentage |-> NoneV, current_section |-> "none", error |-> NoneV]

\* Lines 90-105: a co-payment line
ParseCoPaymentLine(st, line) ==
    LET by_colon == split1(line, ":")
        parts == IF Len(by_colon) = 1 THEN split1(line, "-") ELSE by_colon
    IN  IF Len(parts) # 2
        THEN [st EXCEPT !.error = Raise("ValueError", "Invalid co-payment line format")]
        ELSE LET value == float(strip(remove(strip(parts[2]), "%")))
             IN  IF ~IsOk(value)
                 THEN [st EXCEPT !.error =
                          Raise("ValueError", "Invalid co-payment percentage value in line")]
                 ELSE [st EXCEPT !.co_payment_percentage =
                          Some(PercentHundredths(value.val))]

\* Lines 108-125: a line of the coverage section
ParseCoverageLine(st, line) ==
    IF lower(line) \in {S_coverage_limits, S_coverage} THEN st
    ELSE IF ~(\E i \in DOMAIN line : line[i] \in {"-", ":"}) THEN st
    ELSE LET parts == IF \E i \in DOMAIN line : line[i] = "-"
                      THEN split1(line, "-") ELSE split1(line, ":")
             name == strip(parts[1])
             value == float(strip(remove(parts[2], ",")))
         IN  IF IsOk(value)
             THEN [st EXCEPT !.coverage_limits = DictSet(@, name, AmountMills(value.val))]
             ELSE st

\* Lines 77-131: one line of the document
ParseLine(st, line) ==
    LET low == lower(line)
    IN  IF Contains(low, S_coverage) /\ (Contains(low, S_limit) \/ Contains(low, <<":">>))
        THEN [st EXCEPT !.current_section = "coverage_limits"]
        ELSE IF Contains(low, S_exclusions)
        THEN [st EXCEPT !.current_section = "exclusions"]
        ELSE IF \/ Contains(low, S_non_payable_items)
                \/ Contains(low, S_non_payable_items_hyphen)
                \/ Contains(low, S_non_payable)
        THEN [st EXCEPT !.current_section = "non_payable_items"]
        ELSE IF \/ Contains(low, S_copayment)
                \/ Contains(low, S_co_payment_hyphen)
                \/ Contains(low, S_co_payment_space)
        THEN ParseCoPaymentLine(st, line)
        ELSE IF st.current_section = "coverage_limits"
        THEN ParseCoverageLine(st, line)
        ELSE IF st.current_section = "exclusions"
        THEN [st EXCEPT !.exclusions = Append(@, strip(line))]
        ELSE IF st.current_section = "non_payable_items"
        THEN [st EXCEPT !.non_payable_items = Append(@, strip(line))]
        ELSE st

RECURSIVE ParseLines(_, _)
ParseLines(st, lines) ==
    IF lines = <<>> \/ st.error # NoneV THEN st
    ELSE ParseLines(ParseLine(st, Head(lines)), Tail(lines))

\* parse_insurance_policy_pdf (lines 37-152): Ok(InsurancePolicyModel) or
\* the ValueError of a document that does not have the expected format
parse_insurance_policy_pdf(doc) ==
    LET lines == _extract_text(doc)
    IN  IF ~IsOk(lines) THEN lines
        ELSE LET st == ParseLines(NewParse, lines.val)
             IN  IF st.error # NoneV THEN st.error
                 ELSE IF st.coverage_limits = <<>>
                 THEN Raise("ValueError", "No coverage limits found in policy PDF")
                 ELSE IF st.co_payment_percentage = NoneV
                 THEN Raise("ValueError", "Co-payment percentage not found in policy PDF")
                 ELSE IF \/ FloatLess(st.co_payment_percentage.v, 0)
                         \/ FloatLess(Percent(100), st.co_payment_percentage.v)
                 THEN Raise("ValueError", "Co-payment percentage must be between 0 and 100")
                 ELSE Ok(InsurancePolicyModel(st.coverage_limits, st.exclusions,
                                              st.non_payable_items,
                                              st.co_payment_percentage.v))

\* ------------------------------------------------------------------ inputs

MaxTreatments == 2

MaxOtherItems == 1

Lines_DocA ==
    << <<"C","o","v","e","r","a","g","e"," ","L","i","m","i","t","s",":">>,
       <<"I","C","U"," ","C","h","a","r","g","e","s"," ","-"," ","8",",","0","0","0">>,
       <<"C","o","s","m","e","t","i","c"," ","S","u","r","g","e","r","y",":"," ","5","0","0","0">>,
       <<" ","U","n","k","n","o","w","n"," ","T","r","e","a","t","m","e","n","t"," ","-"," ","2","5","0",".","5","0">>,
       <<"E","x","c","l","u","s","i","o","n","s",":">>,
       <<"c","o","s","m","e","t","i","c"," ","s","u","r","g","e","r","y">>,
       <<"N","o","n"," ","P","a","y","a","b","l","e"," ","I","t","e","m","s",":">>,
       <<"A","d","m","i","n","i","s","t","r","a","t","i","v","e"," ","C","h","a","r","g","e","s">>,
       <<"C","o","P","a","y","m","e","n","t",":"," ","1","0","%">> >>

Lines_DocB ==
    << <<"C","o","v","e","r","a","g","e",":">>,
       <<"G","e","n","e","r","a","l"," ","C","o","n","s","u","l","t","a","t","i","o","n"," ","-"," ","5","0","0">>,
       <<"n","o","t"," ","a"," ","l","i","m","i","t">>,
       <<"E","x","c","l","u","s","i","o","n","s">>,
       <<"I","C","U"," ","C","h","a","r","g","e","s">>,
       <<"N","o","n","-","P","a","y","a","b","l","e"," ","I","t","e","m","s">>,
       <<"G","l","o","v","e","s">>,
       <<"C","o","-","P","a","y","m","e","n","t",":"," ","1","2",".","5","%">> >>

Lines_DocNoCoPayment ==
    << <<"C","o","v","e","r","a","g","e"," ","L","i","m","i","t","s",":">>,
       <<"M","R","I"," ","S","c","a","n"," ","-"," ","1","0","0","0","0">> >>

Lines_DocCoPaymentOutOfRange ==
    << <<"C","o","v","e","r","a","g","e"," ","L","i","m","i","t","s",":">>,
       <<"M","R","I"," ","S","c","a","n"," ","-"," ","1","0","0","0","0">>,
       <<"C","o","P","a","y","m","e","n","t",":"," ","1","5","0","%">> >>

Lines_DocNoLimits ==
    << <<"E","x","c","l","u","s","i","o","n","s",":">>,
       <<"M","R","I"," ","S","c","a","n">>,
       <<"C","o","P","a","y","m","e","n","t",":"," ","1","0","%">> >>

\* Uploads: two documents that parse, three that fail validation, an empty
\* one, one PdfReader cannot read, and a file that is not a PDF
Documents ==
    { [is_pdf |-> TRUE, readable |-> TRUE, lines |-> Lines_DocA],
      [is_pdf |-> TRUE, readable |-> TRUE, lines |-> Lines_DocB],
      [is_pdf |-> TRUE, readable |-> TRUE, lines |-> Lines_DocNoCoPayment],
      [is_pdf |-> TRUE, readable |-> TRUE, lines |-> Lines_DocCoPaymentOutOfRange],
      [is_pdf |-> TRUE, readable |-> TRUE, lines |-> Lines_DocNoLimits],
      [is_pdf |-> TRUE, readable |-> TRUE, lines |-> <<>>],
      [is_pdf |-> TRUE, readable |-> FALSE, lines |-> <<>>],
      [is_pdf |-> FALSE, readable |-> TRUE, lines |-> Lines_DocA] }

\* Coverage lines whose names hold a hyphen or the word "coverage", a limit
\* with a thousands separator, a line given twice and a line that does not
\* parse
Lines_DocCoverageNames ==
    << <<"C","o","v","e","r","a","g","e"," ","L","i","m","i","t","s",":">>,
       <<"M","R","I"," ","S","c","a","n"," ","-"," ","1","0",",","0","0","0">>,
       <<"M","R","I"," ","S","c","a","n",":"," ","1","2","0","0","0">>,
       <<"B","l","o","o","d"," ","T","e","s","t"," ","1","5","0","0">>,
       <<"X","-","R","a","y"," ","-"," ","5","0","0","0">>,
       <<"F","u","l","l"," ","C","o","v","e","r","a","g","e"," ","C","h","e","c","k","u","p",":"," ","3","0","0","0">>,
       <<"C","o","P","a","y","m","e","n","t",":"," ","1","0","%">> >>

\* Further uploads, for the parser alone: documents that parse although a
\* limit is negative or the co-payment is nan, the bounds 0 and 100 of the
\* co-payment, documents the parser rejects, and Lines_DocCoverageNames
UploadDocuments ==
    Documents \cup
    { [is_pdf |-> TRUE, readable |-> TRUE, lines |-> l] : l \in {
      \* a negative limit
      << <<"C","o","v","e","r","a","g","e"," ","L","i","m","i","t","s",":">>,
         <<"M","R","I"," ","S","c","a","n"," ","-"," ","-","5","0","0">>,
         <<"C","o","P","a","y","m","e","n","t",":"," ","1","0","%">> >>,
      \* co-payment 100
      << <<"C","o","v","e","r","a","g","e"," ","L","i","m","i","t","s",":">>,
         <<"M","R","I"," ","S","c","a","n"," ","-"," ","1","0","0","0","0">>,
         <<"C","o","P","a","y","m","e","n","t",":"," ","1","0","0","%">> >>,
      \* co-payment 0, without percent sign
      << <<"C","o","v","e","r","a","g","e"," ","L","i","m","i","t","s",":">>,
         <<"M","R","I"," ","S","c","a","n"," ","-"," ","1","0","0","0","0">>,
         <<"C","o","P","a","y","m","e","n","t",":"," ","0">> >>,
      \* limit after a colon, co-payment after a dash
      << <<"C","o","v","e","r","a","g","e"," ","L","i","m","i","t","s",":">>,
         <<"B","l","o","o","d"," ","T","e","s","t",":"," ","1","5","0","0">>,
         <<"C","o","P","a","y","m","e","n","t"," ","-"," ","1","0">> >>,
      \* co-payment nan
      << <<"C","o","v","e","r","a","g","e"," ","L","i","m","i","t","s",":">>,
         <<"M","R","I"," ","S","c","a","n"," ","-"," ","1","0","0","0","0">>,
         <<"C","o","P","a","y","m","e","n","t",":"," ","n","a","n">> >>,
      \* co-payment -5
      << <<"C","o","v","e","r","a","g","e"," ","L","i","m","i","t","s",":">>,
         <<"M","R","I"," ","S","c","a","n"," ","-"," ","1","0","0","0","0">>,
         <<"C","o","P","a","y","m","e","n","t",":"," ","-","5","%">> >>,
      \* co-payment line without separator
      << <<"C","o","v","e","r","a","g","e"," ","L","i","m","i","t","s",":">>,
         <<"M","R","I"," ","S","c","a","n"," ","-"," ","1","0","0","0","0">>,
         <<"C","o","P","a","y","m","e","n","t"," ","1","0","%">> >>,
      \* co-payment that is no number
      << <<"C","o","v","e","r","a","g","e"," ","L","i","m","i","t","s",":">>,
         <<"M","R","I"," ","S","c","a","n"," ","-"," ","1","0","0","0","0">>,
         <<"C","o","P","a","y","m","e","n","t",":"," ","t","e","n">> >>,
      \* 'Co-Payment - 10': the dash of the keyword is the first one
      << <<"C","o","v","e","r","a","g","e"," ","L","i","m","i","t","s",":">>,
         <<"M","R","I"," ","S","c","a","n"," ","-"," ","1","0","0","0","0">>,
         <<"C","o","-","P","a","y","m","e","n","t"," ","-"," ","1","0">> >>,
      \* no limit line parses
      << <<"C","o","v","e","r","a","g","e"," ","L","i","m","i","t","s",":">>,
         <<"M","R","I"," ","S","c","a","n"," ","-"," ","l","o","t","s">>,
         <<"B","l","o","o","d"," ","T","e","s","t"," ","1","5","0","0">>,
         <<"C","o","P","a","y","m","e","n","t",":"," ","1","0","%">> >>,
      Lines_DocCoverageNames } }

\* The parse of every document of the model
Parsed == [doc \in Documents |-> parse_insurance_policy_pdf(doc)]

\* The policies an upload can load
LoadedPolicies == {Parsed[doc].val : doc \in {d \in Documents : IsOk(Parsed[d])}}

\* Treatments of the model's bills (cost in mills)
TreatmentPool ==
    { [name |-> S_General_Consultation, cost |-> Mills(1000)],
      [name |-> S_icu_charges_padded, cost |-> Mills(12000)],
      [name |-> S_Cosmetic_Surgery, cost |-> Mills(5000)],
      [name |-> S_Blood_Test, cost |-> 300],
      [name |-> S_Unknown_Treatment, cost |-> 335] }

\* Other items of the model's bills (cost in mills)
OtherItemPool ==
    { [name |-> S_Gloves, cost |-> Mills(150)],
      [name |-> S_GLOVES, cost |-> Mills(250)],
      [name |-> S_blank, cost |-> Mills(50)] }

SeqsUpTo(S, n) == UNION {[1..k -> S] : k \in 0..n}

Bills ==
    [treatments : SeqsUpTo(TreatmentPool, MaxTreatments),
     other_items : SeqsUpTo(OtherItemPool, MaxOtherItems)]

\* The bills the route hands to the evaluator: MedicalBill validates
\* treatments with min_items=1 before analyze_medical_bill_route runs
ValidatedBills == {b \in Bills : Len(b.treatments) >= 1}

NoBill == [treatments |-> <<>>, other_items |-> <<>>]

\* ------------------------------------------------------------------ app/services/billing_service.py: BillingService
\* A billing record is [record_id, patient_id, service_code, amount,
\* date_of_service]: amount in mills, date_of_service in hours since a fixed
\* instant.  The fields no operation reads (provider_id, descriptions,
\* date_billed, codes of diagnosis and claim) are left out, as are the
\* random anomaly_id and the timestamp detected_at of an anomaly.
\* _records and _anomalies are dicts: <<key, value>> pairs in insertion order.

\* __init__ (lines 112-116)
BillingService == [_records |-> <<>>, _anomalies |-> <<>>]

\* dict.get(key, default) of a dict of pairs
PairsGet(dict, key, default) ==
    IF \E i \in DOMAIN dict : dict[i][1] = key
    THEN dict[CHOOSE i \in DOMAIN dict : dict[i][1] = key][2]
    ELSE default

\* typical_amounts (lines 229-233), in mills
typical_amounts ==
    [service_code \in {"99213", "99214", "36415"} |->
        CASE service_code = "99213" -> Mills(150)
          [] service_code = "99214" -> Mills(200)
          [] service_code = "36415" -> Mills(25)]

\* _detect_anomalies with the 2x threshold counted as exceeded
_detect_anomalies_from_twice(self, record, min_confidence) ==
    IF /\ record.service_code \in DOMAIN typical_amounts
       /\ record.amount >= typical_amounts[record.service_code] * 2
    THEN <<[record_id |-> record.record_id,
            anomaly_type |-> "overcharge",
            severity |-> "high",
            confidence_score |-> 75]>>
    ELSE <<>>

\* _detect_anomalies (lines 204-270); confidence scores in hundredths.
\* min_confidence is a parameter the body never reads.  timedelta.days is
\* the floor of the difference in days, hence \div 24 on hours.
_detect_anomalies(self, record, min_confidence) ==
    LET Abs(x) == IF x < 0 THEN 0 - x ELSE x
        overcharge ==
            IF /\ record.service_code \in DOMAIN typical_amounts
               /\ record.amount > typical_amounts[record.service_code] * 2
            THEN <<[record_id |-> record.record_id,
                    anomaly_type |-> "overcharge",
                    severity |-> "high",
                    confidence_score |-> 75]>>
            ELSE <<>>
        matches ==
            {i \in DOMAIN self._records :
                LET existing_record == self._records[i][2]
                IN  /\ existing_record.record_id # record.record_id
                    /\ existing_record.patient_id = record.patient_id
                    /\ existing_record.service_code = record.service_code
                    /\ Abs((existing_record.date_of_service
                              - record.date_of_service) \div 24) < 1}
        duplicate ==
            IF matches = {} THEN <<>>
            ELSE <<[record_id |-> record.record_id,
                    anomaly_type |-> "duplicate",
                    severity |-> "medium",
                    confidence_score |-> 65,
                    duplicate_of |-> self._records[SetMin(matches)][2].record_id]>>
    IN  overcharge \o duplicate

\* create_record (lines 118-142) when the generated id is record_id: the
\* service afterwards and the record returned
create_record(self, record_id, record_data) ==
    LET record == [record_id |-> record_id,
                   patient_id |-> record_data.patient_id,
                   service_code |-> record_data.service_code,
                   amount |-> record_data.amount,
                   date_of_service |-> record_data.date_of_service]
        stored == [self EXCEPT !._records = DictSet(@, record_id, record)]
        anomalies == _detect_anomalies(stored, record, 50)
    IN  [self |-> [stored EXCEPT !._anomalies = DictSet(@, record_id, anomalies)],
         result |-> record]

\* get_record (lines 143-153)
get_record(self, record_id) ==
    PairsGet(self._records, record_id, NoneV)

\* get_all_records (lines 154-161)
get_all_records(self) ==
    [i \in DOMAIN self._records |-> self._records[i][2]]

\* detect_anomalies (lines 162-203); request.record_ids and
\* request.severity_filter are NoneV or Some(list), and an empty list is
\* as false as None
detect_anomalies(self, request) ==
    LET Given(list) == list # NoneV /\ list.v # <<>>
        Concat(lists) ==
            LET RECURSIVE Cat(_)
                Cat(k) == IF k = 0 THEN <<>> ELSE Cat(k - 1) \o lists[k]
            IN  Cat(Len(lists))
        known == SelectSeq(request.record_ids.v,
                           LAMBDA rid : \E i \in DOMAIN self._records :
                                           self._records[i][1] = rid)
        records_to_analyze ==
            IF Given(request.record_ids)
            THEN [k \in DOMAIN known |-> PairsGet(self._records, known[k], NoneV)]
            ELSE get_all_records(self)
        all_anomalies ==
            Concat([k \in DOMAIN records_to_analyze |->
                       _detect_anomalies(self, records_to_analyze[k],
                                         request.min_confidence)])
        filtered ==
            IF Given(request.severity_filter)
            THEN SelectSeq(all_anomalies,
                           LAMBDA a : \E j \in DOMAIN request.severity_filter.v :
                                         request.severity_filter.v[j] = a.severity)
            ELSE all_anomalies
    IN  [total_records_analyzed |-> Len(records_to_analyze),
         anomalies_detected |-> Len(filtered),
         anomalies |-> filtered]

\* get_record_anomalies (lines 271-281)
get_record_anomalies(self, record_id) ==
    PairsGet(self._anomalies, record_id, <<>>)

\* ------------------------------------------------------------------ state

VARIABLES
    policy_state_CURRENT_POLICY,  \* app.core.policy_state.CURRENT_POLICY
    CURRENT_POLICY,               \* the name CURRENT_POLICY of app.services.billing_service
    bill,                         \* the argument of the analyze_medical_bill call in progress
    frame,                        \* its position and locals; frame.outcome once it is done
    slots_seen,                   \* history: values policy_state held during the call
    first_call,                   \* history: the final frame of the first of two calls
    query,                        \* the last direct call of a helper, with its result
    billing_service               \* the BillingService instance: _records and _anomalies

vars == <<policy_state_CURRENT_POLICY, CURRENT_POLICY, bill, frame,
          slots_seen, first_call, query, billing_service>>

\* _get_active_policy() (lines 32-36): the value bound to the module's own
\* name CURRENT_POLICY, which "from app.core.policy_state import
\* CURRENT_POLICY" (line 28) bound once, at import
_get_active_policy == CURRENT_POLICY

\* ------------------------------------------------------------------ app/routes/billing.py

\* upload_insurance_policy (lines 229-302): a successfully parsed policy is
\* assigned to the attribute CURRENT_POLICY of module app.core.policy_state;
\* a rejected upload (HTTP 400/500) assigns nothing.  Route handlers run on
\* the server's thread pool, so an upload may run while a bill is analyzed.
UploadInsurancePolicy(doc) ==
    /\ IF doc.is_pdf /\ IsOk(Parsed[doc])
       THEN /\ policy_state_CURRENT_POLICY' = Parsed[doc].val
            /\ slots_seen' = IF frame.pc = "idle" THEN slots_seen
                             ELSE slots_seen \cup {Parsed[doc].val}
       ELSE UNCHANGED <<policy_state_CURRENT_POLICY, slots_seen>>
    /\ UNCHANGED <<CURRENT_POLICY, billing_service, bill, frame, first_call, query>>

\* analyze_medical_bill_route (lines 103-126) calls analyze_medical_bill(bill)
AnalyzeMedicalBillCall(b) ==
    /\ frame.pc = "idle"
    /\ bill' = b
    /\ frame' = NewFrame(frame)
    /\ slots_seen' = {policy_state_CURRENT_POLICY}
    /\ UNCHANGED <<policy_state_CURRENT_POLICY, CURRENT_POLICY, billing_service, first_call, query>>

\* The route returns the result or maps the exception to an HTTP error
AnalyzeMedicalBillReturn ==
    /\ frame.pc = "done"
    /\ frame' = IdleFrame
    /\ bill' = NoBill
    /\ slots_seen' = {}
    /\ UNCHANGED <<policy_state_CURRENT_POLICY, CURRENT_POLICY, billing_service, first_call, query>>

\* ------------------------------------------------------------------ steps of analyze_medical_bill

StepFrame(pc, next) ==
    /\ frame.pc = pc
    /\ frame' = next
    /\ UNCHANGED <<policy_state_CURRENT_POLICY, CURRENT_POLICY, billing_service, bill,
                   slots_seen, first_call, query>>

EnterStep == StepFrame("start", Enter(bill, frame))

TreatmentExcludedStep ==
    StepFrame("excluded", TreatmentExcluded(_get_active_policy, bill, frame))

TreatmentCoveredStep ==
    StepFrame("covered", TreatmentCovered(_get_active_policy, bill, frame))

TreatmentLimitStep ==
    StepFrame("limit", TreatmentLimit(_get_active_policy, bill, frame))

OtherItemNonPayableStep ==
    StepFrame("non_payable", OtherItemNonPayable(_get_active_policy, bill, frame))

OtherItemCostCheckStep ==
    StepFrame("cost_check", OtherItemCostCheck(_get_active_policy, bill, frame))

CoPaymentStep ==
    StepFrame("copay", CoPayment(_get_active_policy, bill, frame))

AnalyzeStep ==
    \/ EnterStep
    \/ TreatmentExcludedStep
    \/ TreatmentCoveredStep
    \/ TreatmentLimitStep
    \/ OtherItemNonPayableStep
    \/ OtherItemCostCheckStep
    \/ CoPaymentStep

\* ------------------------------------------------------------------ the service

Init ==
    /\ policy_state_CURRENT_POLICY = NoneV
    /\ CURRENT_POLICY = NoneV
    /\ bill = NoBill
    /\ frame = IdleFrame
    /\ slots_seen = {}
    /\ first_call = NoneV
    /\ query = NoneV
    /\ billing_service = BillingService

Next ==
    \/ \E doc \in Documents : UploadInsurancePolicy(doc)
    \/ \E b \in ValidatedBills : AnalyzeMedicalBillCall(b)
    \/ AnalyzeStep
    \/ AnalyzeMedicalBillReturn

Spec == Init /\ [][Next]_vars

\* ------------------------------------------------------------------ the evaluator as a function
\* analyze_medical_bill reads its policy through _get_active_policy(); here
\* the value that name is bound to is an input, drawn with the bill, and the
\* same bill is evaluated a second time after the first call returns.

InitEval ==
    /\ CURRENT_POLICY \in {NoneV} \cup LoadedPolicies
    /\ policy_state_CURRENT_POLICY = CURRENT_POLICY
    /\ bill \in Bills
    /\ frame = NewFrame(IdleFrame)
    /\ slots_seen = {CURRENT_POLICY}
    /\ first_call = NoneV
    /\ query = NoneV
    /\ billing_service = BillingService

\* The caller keeps the first result and calls analyze_medical_bill(bill) again
SecondCall ==
    /\ frame.pc = "done"
    /\ first_call = NoneV
    /\ first_call' = Some(frame)
    /\ frame' = NewFrame(frame)
    /\ UNCHANGED <<policy_state_CURRENT_POLICY, CURRENT_POLICY, billing_service, bill, slots_seen, query>>

NextEval ==
    \/ AnalyzeStep
    \/ SecondCall

SpecEval == InitEval /\ [][NextEval]_vars

\* ------------------------------------------------------------------ direct calls of the helpers

QueryNames ==
    { S_MRI_Scan, S_mri_scan_padded, S_Blood_Test, S_General_Consultation,
      S_Cosmetic_Surgery, S_cosmetic_surgery, S_Gloves, S_GLOVES,
      S_Unknown_Treatment, S_blank, <<>> }

\* Billed costs in mills: non-positive ones, the band boundaries of
\* MRI Scan and Blood Test with their neighbours one mill above, and the
\* costs of tests/test_cost_analysis_service.py
QueryCosts ==
    { 0 - Mills(100), 0 - 1, 0, 1, Mills(75),
      Mills(800), Mills(11000), Mills(11001), Mills(12000),
      Mills(1000), Mills(1000) + 1, Mills(1800), Mills(1800) + 1,
      Mills(9000), Mills(9000) + 1, Mills(15000), Mills(15000) + 1 }

\* analyze_cost_efficiency(item_name, billed_cost)
CostQuery(item_name, billed_cost) ==
    /\ query = NoneV
    /\ query' = [fn |-> "analyze_cost_efficiency",
                 item_name |-> item_name,
                 billed_cost |-> billed_cost,
                 result |-> analyze_cost_efficiency(item_name, billed_cost)]
    /\ UNCHANGED <<policy_state_CURRENT_POLICY, CURRENT_POLICY, billing_service, bill, frame,
                   slots_seen, first_call>>

\* The coverage queries on one name: the built-in helpers of
\* app.core.insurance_policy, the policy-aware helpers of the evaluator under
\* `policy`, and InsurancePolicyModel.validate_treatment of a loaded policy
PolicyQuery(policy, name) ==
    /\ query = NoneV
    /\ query' = [fn |-> "policy",
                 policy |-> policy,
                 name |-> name,
                 is_treatment_excluded |-> is_treatment_excluded(name),
                 is_treatment_covered |-> is_treatment_covered(name),
                 get_coverage_limit |-> get_coverage_limit(name),
                 get_co_payment_percentage |-> get_co_payment_percentage,
                 excluded_policy |-> _is_treatment_excluded_policy(policy, name),
                 covered_policy |-> _is_treatment_covered_policy(policy, name),
                 validate_treatment |-> IF policy # NoneV
                                        THEN validate_treatment(policy, name)
                                        ELSE NoneV]
    /\ UNCHANGED <<policy_state_CURRENT_POLICY, CURRENT_POLICY, billing_service, bill, frame,
                   slots_seen, first_call>>

\* analyze_medical_bill(b) with the policy-aware helpers reading `policy`
BillQuery(policy, b) ==
    /\ query = NoneV
    /\ query' = [fn |-> "analyze_medical_bill",
                 policy |-> policy,
                 bill |-> b,
                 result |-> analyze_medical_bill(policy, b)]
    /\ UNCHANGED <<policy_state_CURRENT_POLICY, CURRENT_POLICY, billing_service, bill, frame,
                   slots_seen, first_call>>

\* Names looked up in the reference data: those of QueryNames, and parts,
\* extensions and misspellings of stored keys
LookupNames ==
    QueryNames \cup
    { <<"M","R","I">>,
      <<"M","R","I"," ","S","c","a","n"," ","B","r","a","i","n">>,
      <<"S","c","a","n">>,
      <<"M","R","I","S","c","a","n">>,
      <<"B","L","O","O","D"," ","T","E","S","T">>,
      <<"	","b","l","o","o","d"," ","t","e","s","t"," ">>,
      <<"B","l","o","o","d"," "," ","T","e","s","t">> }

\* get_local_cost_info(item_name), and analyze_cost_efficiency on the same
\* name with a positive cost
LookupQuery(item_name) ==
    /\ query = NoneV
    /\ query' = [fn |-> "get_local_cost_info",
                 item_name |-> item_name,
                 result |-> get_local_cost_info(item_name),
                 analysis |-> analyze_cost_efficiency(item_name, Mills(75))]
    /\ UNCHANGED <<policy_state_CURRENT_POLICY, CURRENT_POLICY, billing_service, bill, frame,
                   slots_seen, first_call>>

NextHelpers ==
    \/ \E n \in QueryNames, c \in QueryCosts : CostQuery(n, c)
    \/ \E n \in LookupNames : LookupQuery(n)
    \/ \E p \in {NoneV} \cup LoadedPolicies, n \in QueryNames : PolicyQuery(p, n)
    \/ \E p \in {NoneV} \cup LoadedPolicies, b \in Bills : BillQuery(p, b)

SpecHelpers == Init /\ [][NextHelpers]_vars

\* ------------------------------------------------------------------ uploads alone

\* What upload_insurance_policy does with a file before it stores anything
\* (lines 238-260): the rejection of a file that is not a PDF, or the parse
upload_insurance_policy(doc) ==
    IF ~doc.is_pdf THEN Raise("HTTPException", "Only PDF files are supported")
    ELSE parse_insurance_policy_pdf(doc)

\* upload_insurance_policy(doc), with the call and the slot's previous value
\* kept in `query`: the slot is assigned after a parse that returned
\* (line 265) and by nothing else
UploadPolicyQuery(doc) ==
    LET result == upload_insurance_policy(doc)
    IN  /\ policy_state_CURRENT_POLICY' =
              IF IsOk(result) THEN result.val ELSE policy_state_CURRENT_POLICY
        /\ query' = [fn |-> "upload_insurance_policy",
                     doc |-> doc,
                     previous |-> policy_state_CURRENT_POLICY,
                     result |-> result]
        /\ UNCHANGED <<CURRENT_POLICY, billing_service, bill, frame, slots_seen, first_call>>

NextUpload == \E doc \in UploadDocuments : UploadPolicyQuery(doc)

SpecUpload == Init /\ [][NextUpload]_vars

\* ------------------------------------------------------------------ the analyze route, one request

\* analyze_medical_bill_route (lines 103-126): the result, or HTTP 400 with
\* the message of a ValueError, or HTTP 500 for every other exception
analyze_medical_bill_route(outcome) ==
    IF IsOk(outcome) THEN [status_code |-> 200, body |-> outcome.val]
    ELSE IF outcome.exc = "ValueError"
    THEN [status_code |-> 400, detail |-> outcome.msg]
    ELSE [status_code |-> 500, detail |-> "Failed to analyze medical bill"]

\* Bills with costs at the end of Decimal's range, whose sum overflows
OverflowBills ==
    LET huge == [name |-> S_General_Consultation, cost |-> Huge]
        small == [name |-> S_General_Consultation, cost |-> Mills(1000)]
        gloves == [name |-> S_Gloves, cost |-> Huge]
    IN  { [treatments |-> <<huge, huge>>, other_items |-> <<>>],
          [treatments |-> <<huge, small>>, other_items |-> <<>>],
          [treatments |-> <<huge>>, other_items |-> <<gloves>>],
          [treatments |-> <<small>>, other_items |-> <<gloves>>] }

InitRoute ==
    /\ CURRENT_POLICY \in {NoneV} \cup LoadedPolicies
    /\ policy_state_CURRENT_POLICY = CURRENT_POLICY
    /\ bill \in ValidatedBills \cup OverflowBills
    /\ frame = NewFrame(IdleFrame)
    /\ slots_seen = {CURRENT_POLICY}
    /\ first_call = NoneV
    /\ query = NoneV
    /\ billing_service = BillingService

\* The route's response to the call that ended
RouteResponse ==
    /\ frame.pc = "done"
    /\ query = NoneV
    /\ query' = [fn |-> "analyze_medical_bill_route",
                 response |-> analyze_medical_bill_route(frame.outcome)]
    /\ UNCHANGED <<policy_state_CURRENT_POLICY, CURRENT_POLICY, billing_service, bill, frame,
                   slots_seen, first_call>>

\* dict.get(key, default)
DictGet(d, key, default) == IF key \in DOMAIN d THEN d[key] ELSE default

\* download_report (routes/billing.py lines 306-408, the same in main.py
\* lines 289-374): the three amounts of the "Financial Summary" as read from
\* data['analysis'] and written with two decimals, and the claimable column
\* of the "Treatment Breakdown"
download_report(data) ==
    LET analysis == DictGet(data, "analysis", <<>>)
        total_bill == DictGet(analysis, "total_bill_amount", 0)
        final_claimable == DictGet(analysis, "final_claimable_amount", 0)
        co_payment == DictGet(analysis, "co_payment_deducted", 0)
        coverage_breakdown == DictGet(analysis, "coverage_breakdown", <<>>)
    IN  [total_bill |-> Quantize(total_bill),
         final_claimable |-> Quantize(final_claimable),
         co_payment |-> Quantize(co_payment),
         claimable |-> [i \in DOMAIN coverage_breakdown |->
                           DictGet(coverage_breakdown[i], "claimable_amount", 0)]]

\* The client posts the result it was answered with to /download-report
DownloadReport ==
    /\ query # NoneV
    /\ query.fn = "analyze_medical_bill_route"
    /\ query.response.status_code = 200
    /\ LET data == [analysis |-> query.response.body]
       IN  query' = [fn |-> "download_report",
                     response |-> query.response,
                     data |-> data,
                     report |-> download_report(data)]
    /\ UNCHANGED <<policy_state_CURRENT_POLICY, CURRENT_POLICY, billing_service, bill, frame,
                   slots_seen, first_call>>

NextRoute ==
    \/ AnalyzeStep
    \/ RouteResponse
    \/ DownloadReport

SpecRoute == InitRoute /\ [][NextRoute]_vars

\* ------------------------------------------------------------------ the record store

\* The ids create_record can generate: "BILL-" date "-" and the first eight
\* hexadecimal digits of a uuid4, which need not differ from an id in use
RecordIds == {"BILL-20240215-0A1B2C3D", "BILL-20240215-4E5F6A7B", "BILL-20240215-8C9D0E1F"}

\* BillingRecordCreate data: service code 99213 (in typical_amounts, 150.00)
\* billed 300.00 and 300.01, services of one patient 12 and 24 hours apart,
\* a service code that is not in typical_amounts, and a second patient
RecordInputs ==
    { [patient_id |-> "PAT-1", service_code |-> "99213",
       amount |-> Mills(300), date_of_service |-> 12],
      [patient_id |-> "PAT-1", service_code |-> "99213",
       amount |-> Mills(300) + 10, date_of_service |-> 0],
      [patient_id |-> "PAT-1", service_code |-> "99213",
       amount |-> Mills(300) + 10, date_of_service |-> 24],
      [patient_id |-> "PAT-1", service_code |-> "A0001",
       amount |-> Mills(300) + 10, date_of_service |-> 12],
      [patient_id |-> "PAT-2", service_code |-> "99213",
       amount |-> Mills(300) + 10, date_of_service |-> 12] }

\* AnomalyDetectionRequest values; min_confidence in hundredths
DetectionRequests ==
    [record_ids : {NoneV, Some(<<>>),
                   Some(<<"BILL-20240215-4E5F6A7B", "BILL-20240215-8C9D0E1F">>)},
     min_confidence : {50, 90},
     severity_filter : {NoneV, Some(<<"high">>), Some(<<"low", "medium">>)}]

\* create_record with the generated id record_id: an id in use, or an id
\* not in use, of which one stands for all (ids matter only by equality)
CreateRecord(record_id, record_data) ==
    LET created == create_record(billing_service, record_id, record_data)
        unused == {id \in RecordIds : get_record(billing_service, id) = NoneV}
    IN  /\ record_id \in unused => record_id = CHOOSE id \in unused : TRUE
        /\ billing_service' = created.self
        /\ query' = [fn |-> "create_record", result |-> created.result]
        /\ UNCHANGED <<policy_state_CURRENT_POLICY, CURRENT_POLICY, bill, frame,
                       slots_seen, first_call>>

GetRecord(record_id) ==
    /\ query' = [fn |-> "get_record", record_id |-> record_id,
                 result |-> get_record(billing_service, record_id)]
    /\ UNCHANGED <<policy_state_CURRENT_POLICY, CURRENT_POLICY, billing_service,
                   bill, frame, slots_seen, first_call>>

GetAllRecords ==
    /\ query' = [fn |-> "get_all_records", result |-> get_all_records(billing_service)]
    /\ UNCHANGED <<policy_state_CURRENT_POLICY, CURRENT_POLICY, billing_service,
                   bill, frame, slots_seen, first_call>>

DetectAnomalies(request) ==
    /\ query' = [fn |-> "detect_anomalies", request |-> request,
                 result |-> detect_anomalies(billing_service, request)]
    /\ UNCHANGED <<policy_state_CURRENT_POLICY, CURRENT_POLICY, billing_service,
                   bill, frame, slots_seen, first_call>>

GetRecordAnomalies(record_id) ==
    /\ query' = [fn |-> "get_record_anomalies", record_id |-> record_id,
                 result |-> get_record_anomalies(billing_service, record_id)]
    /\ UNCHANGED <<policy_state_CURRENT_POLICY, CURRENT_POLICY, billing_service,
                   bill, frame, slots_seen, first_call>>

NextStore ==
    \/ \E id \in RecordIds, data \in RecordInputs : CreateRecord(id, data)
    \/ \E id \in RecordIds : GetRecord(id)
    \/ GetAllRecords
    \/ \E request \in DetectionRequests : DetectAnomalies(request)
    \/ \E id \in RecordIds : GetRecordAnomalies(id)

SpecStore == Init /\ [][NextStore]_vars

\* ------------------------------------------------------------------ what a policy says
\* Read off the policy data, for the statements below: the evaluator's own
\* helpers are not used here.

PolicyData(policy) ==
    IF policy = NoneV
    THEN [coverage_limits |->
              [i \in DOMAIN INSURANCE_POLICY.coverage_limits |->
                  <<INSURANCE_POLICY.coverage_limits[i][1],
                    Mills(INSURANCE_POLICY.coverage_limits[i][2])>>],
          exclusions |-> INSURANCE_POLICY.exclusions,
          non_payable_items |-> INSURANCE_POLICY.non_payable_items,
          co_payment_percentage |-> Percent(INSURANCE_POLICY.co_payment_percentage)]
    ELSE policy

SameName(a, b) == lower(strip(a)) = lower(strip(b))

LimitsOf(policy, name) ==
    {kv[2] : kv \in {x \in Range(PolicyData(policy).coverage_limits) : SameName(x[1], name)}}

InExclusions(policy, name) ==
    \E x \in Range(PolicyData(policy).exclusions) : SameName(x, name)

Covers(policy, name) == LimitsOf(policy, name) # {} /\ ~InExclusions(policy, name)

NonBlank(name) == strip(name) # <<>>

\* The data model's line items: a name that is not blank, a positive cost
WellFormed(b) ==
    /\ \A i \in DOMAIN b.treatments :
          NonBlank(b.treatments[i].name) /\ b.treatments[i].cost > 0
    /\ \A i \in DOMAIN b.other_items :
          NonBlank(b.other_items[i].name) /\ b.other_items[i].cost > 0

RECURSIVE SumClaimable(_)
SumClaimable(breakdown) ==
    IF breakdown = <<>> THEN 0
    ELSE Head(breakdown).claimable_amount + SumClaimable(Tail(breakdown))

Returned == frame.pc = "done" /\ IsOk(frame.outcome)

\* ------------------------------------------------------------------ claims

\* C1: in a result of analyze_medical_bill, the breakdown entry of every
\* treatment the policy read by the evaluator covers (a coverage limit, no
\* exclusion) carries that limit and claims min(billed cost, limit); every
\* other treatment claims 0; and the claimable total before co-payment is the
\* sum of the claimed amounts.
C1_CoveredClaimsMinOfCostAndLimit ==
    Returned =>
        LET ts == bill.treatments
            bd == frame.outcome.val.coverage_breakdown
        IN  /\ Len(bd) = Len(ts)
            /\ \A i \in DOMAIN ts :
                  IF Covers(CURRENT_POLICY, ts[i].name)
                  THEN /\ bd[i].coverage_limit \in LimitsOf(CURRENT_POLICY, ts[i].name)
                       /\ bd[i].claimable_amount =
                             (IF ts[i].cost <= bd[i].coverage_limit
                              THEN ts[i].cost ELSE bd[i].coverage_limit)
                  ELSE bd[i].claimable_amount = 0
            /\ frame.total_claimable_before_copay = SumClaimable(bd)

\* C1 witness: a result for a bill with a covered treatment billed above its
\* limit and a treatment that is not covered
C1_Witness ==
    /\ Returned
    /\ \E i \in DOMAIN bill.treatments :
          /\ Covers(CURRENT_POLICY, bill.treatments[i].name)
          /\ \A l \in LimitsOf(CURRENT_POLICY, bill.treatments[i].name) :
                bill.treatments[i].cost > l
    /\ \E i \in DOMAIN bill.treatments :
          ~Covers(CURRENT_POLICY, bill.treatments[i].name)

\* C2: a call of analyze_medical_bill that runs after the last successful
\* upload evaluates the bill against the policy that upload stored (against
\* the built-in default if there was none).
C2_EvaluatesAgainstUploadedPolicy ==
    (frame.pc = "done" /\ slots_seen = {policy_state_CURRENT_POLICY}) =>
        frame.outcome = analyze_medical_bill(policy_state_CURRENT_POLICY, bill).outcome

\* C3: a well-formed bill with at least one treatment, none of them covered,
\* is rejected with ValueError "No valid treatments for insurance coverage",
\* whatever its other items are.
C3_NothingCoveredIsRejected ==
    ( /\ frame.pc = "done"
      /\ WellFormed(bill)
      /\ bill.treatments # <<>>
      /\ \A i \in DOMAIN bill.treatments : ~Covers(CURRENT_POLICY, bill.treatments[i].name) )
    => frame.outcome = Raise("ValueError", "No valid treatments for insurance coverage")

\* C3 witness: such a bill, with an other item, has been rejected under a
\* policy that excludes one of its treatments and has no limit for another
C3_Witness ==
    /\ frame.pc = "done"
    /\ WellFormed(bill)
    /\ bill.other_items # <<>>
    /\ \E i \in DOMAIN bill.treatments : InExclusions(CURRENT_POLICY, bill.treatments[i].name)
    /\ \E i \in DOMAIN bill.treatments : LimitsOf(CURRENT_POLICY, bill.treatments[i].name) = {}
    /\ \A i \in DOMAIN bill.treatments : ~Covers(CURRENT_POLICY, bill.treatments[i].name)
    /\ frame.outcome = Raise("ValueError", "No valid treatments for insurance coverage")

\* C3, for every bill, blank item names included: a bill with at least one
\* treatment, none of them covered, is rejected with ValueError "No valid
\* treatments for insurance coverage", whatever its other items are.
C3_NothingCoveredIsRejectedWhateverTheItems ==
    ( /\ frame.pc = "done"
      /\ bill.treatments # <<>>
      /\ \A i \in DOMAIN bill.treatments : ~Covers(CURRENT_POLICY, bill.treatments[i].name) )
    => frame.outcome = Raise("ValueError", "No valid treatments for insurance coverage")

\* C4: a bill without treatments is rejected with a ValueError on entry,
\* before any item is processed, also when it has other items.
C4_EmptyTreatmentsRejectedFirst ==
    (bill.treatments = <<>> /\ frame.pc \notin {"idle", "start"}) =>
        /\ frame.pc = "done"
        /\ frame.outcome =
              Raise("ValueError", "Medical bill must contain at least one treatment")
        /\ frame.total_bill_amount = 0
        /\ frame.non_payable_items = <<>>
        /\ frame.coverage_breakdown = <<>>
        /\ frame.cost_efficiency_warnings = <<>>

\* C4 witness: a bill with other items and no treatment has been rejected
C4_Witness ==
    /\ bill.treatments = <<>>
    /\ bill.other_items # <<>>
    /\ frame.pc = "done"
    /\ ~IsOk(frame.outcome)

\* C5: co_payment_deducted is total x percentage / 100 rounded to cents, ties
\* to the even cent, and total_claimable_amount is total - co_payment_deducted
\* rounded the same way; 10000.00 at 15% gives 1500.00 and 8500.00.
\* With total in mills and the percentage in hundredths of a percent the
\* exact deduction is total x percentage / 10^5 cents; written as
\* whole + part / 10^5 cents with 0 <= part < 10^5, the deducted cents c are
\* whole or whole + 1, at most half a cent away, and even when exactly half.
C5_CoPaymentHalfEvenCents ==
    Returned =>
        LET total == frame.total_claimable_before_copay
            pct == PolicyData(CURRENT_POLICY).co_payment_percentage
            deducted == frame.outcome.val.co_payment_deducted
            claimable == frame.outcome.val.total_claimable_amount
            whole == (total \div 100000) * pct + ((total % 100000) * pct) \div 100000
            part == ((total % 100000) * pct) % 100000
            c == deducted \div 10
            rest == total - deducted - claimable
        IN  /\ deducted % 10 = 0
            /\ \/ c = whole /\ 2 * part <= 100000
               \/ c = whole + 1 /\ 2 * part >= 100000
            /\ 2 * part = 100000 => c % 2 = 0
            /\ claimable % 10 = 0
            /\ 0 - 5 <= rest /\ rest <= 5
            /\ (rest \in {0 - 5, 5}) => (claimable \div 10) % 2 = 0
            /\ (total = Mills(10000) /\ pct = Percent(15)) =>
                  (deducted = Mills(1500) /\ claimable = Mills(8500))

\* C5 witness: a result whose exact deduction lies halfway between two cents
C5_Witness ==
    /\ Returned
    /\ LET total == frame.total_claimable_before_copay
           pct == PolicyData(CURRENT_POLICY).co_payment_percentage
       IN  2 * (((total % 100000) * pct) % 100000) = 100000

\* C6: a name in both the exclusions and the coverage limits of a policy is
\* not covered: the built-in helpers never report a name both excluded and
\* covered, _is_treatment_covered_policy and validate_treatment return False
\* for it, and analyze_medical_bill records such a treatment as excluded
\* ("policy_exclusion") with coverage limit 0 and claimable amount 0.
C6_ExclusionPrecedesLimit ==
    /\ query # NoneV /\ query.fn = "policy" =>
          /\ ~(query.is_treatment_excluded = Ok(TRUE) /\ query.is_treatment_covered = Ok(TRUE))
          /\ (LimitsOf(query.policy, query.name) # {} /\ InExclusions(query.policy, query.name)) =>
                /\ query.covered_policy = Ok(FALSE)
                /\ query.excluded_policy = Ok(TRUE)
                /\ query.policy # NoneV => query.validate_treatment = Ok(FALSE)
    /\ query # NoneV /\ query.fn = "analyze_medical_bill" =>
          LET ts == query.bill.treatments
              bd == query.result.coverage_breakdown
              ex == query.result.excluded_items
          IN  \A i \in DOMAIN bd :
                 (LimitsOf(query.policy, ts[i].name) # {} /\ InExclusions(query.policy, ts[i].name)) =>
                    /\ bd[i].coverage_limit = 0
                    /\ bd[i].claimable_amount = 0
                    /\ [name |-> ts[i].name, cost |-> ts[i].cost,
                        reason |-> "policy_exclusion"] \in Range(ex)

\* C6 witness: a bill accepted under a policy that both limits and excludes
\* one of its treatments
C6_Witness ==
    /\ query # NoneV /\ query.fn = "analyze_medical_bill"
    /\ IsOk(query.result.outcome)
    /\ \E i \in DOMAIN query.bill.treatments :
          /\ LimitsOf(query.policy, query.bill.treatments[i].name) # {}
          /\ InExclusions(query.policy, query.bill.treatments[i].name)

\* C7: for a name found in the reference data, with average A and maximum M,
\* and a positive billed cost c, analyze_cost_efficiency returns exactly one
\* of the three statuses: highly_overpriced iff c > M, slightly_overpriced
\* iff A < c <= M, within_market_range iff c <= A.
C7_ThreeBandsStrictBoundaries ==
    (query # NoneV /\ query.fn = "analyze_cost_efficiency" /\ query.billed_cost > 0) =>
        \A k \in DOMAIN LOCAL_COST_DATABASE :
            SameName(LOCAL_COST_DATABASE[k].name, query.item_name) =>
                LET A == Mills(LOCAL_COST_DATABASE[k].average_cost)
                    M == Mills(LOCAL_COST_DATABASE[k].max_cost)
                    c == query.billed_cost
                IN  /\ IsOk(query.result) /\ query.result.val # NoneV
                    /\ query.result.val.v.status \in
                          {"highly_overpriced", "slightly_overpriced", "within_market_range"}
                    /\ query.result.val.v.status = "highly_overpriced" <=> c > M
                    /\ query.result.val.v.status = "slightly_overpriced" <=> (A < c /\ c <= M)
                    /\ query.result.val.v.status = "within_market_range" <=> c <= A

\* C7 witness: a cost equal to the maximum has been classified slightly_overpriced
C7_Witness ==
    /\ query # NoneV /\ query.fn = "analyze_cost_efficiency"
    /\ \E k \in DOMAIN LOCAL_COST_DATABASE :
          /\ SameName(LOCAL_COST_DATABASE[k].name, query.item_name)
          /\ query.billed_cost = Mills(LOCAL_COST_DATABASE[k].max_cost)
    /\ IsOk(query.result)
    /\ query.result.val.v.status = "slightly_overpriced"

\* C8: analyze_cost_efficiency raises ValueError for every billed cost <= 0,
\* whatever the item name is: found, not found or blank.
C8_NonPositiveCostRejected ==
    (query # NoneV /\ query.fn = "analyze_cost_efficiency" /\ query.billed_cost <= 0) =>
        query.result = Raise("ValueError", "billed_cost must be greater than 0")

\* C8 witness: a cost of zero has been rejected for a name that is in the
\* reference data
C8_Witness ==
    /\ query # NoneV /\ query.fn = "analyze_cost_efficiency"
    /\ query.billed_cost = 0
    /\ \E k \in DOMAIN LOCAL_COST_DATABASE :
          SameName(LOCAL_COST_DATABASE[k].name, query.item_name)
    /\ ~IsOk(query.result)

C10_OldOrNewPolicyNeverMixed ==
    (frame.pc = "done" /\ Cardinality(slots_seen) > 1) =>
        \E p \in slots_seen : frame.outcome = analyze_medical_bill(p, bill).outcome

\* The parser's locals after the last line of a readable document
ParsedLocals(doc) == ParseLines(NewParse, _extract_text(doc).val)

\* A percentage (hundredths of a percent) within [0, 100]
InPercentRange(v) == v # NaN /\ 0 <= v /\ v <= Percent(100)

Uploaded == query # NoneV /\ query.fn = "upload_insurance_policy"

\* C11: an upload whose document yields no coverage limit, no co-payment
\* percentage, or a co-payment percentage that is not within [0, 100] ends
\* in ValueError; and after every upload that failed, the active-policy
\* slot holds the value it held before.
C11_MalformedPolicyRejectedSlotKept ==
    Uploaded =>
        /\ (query.doc.is_pdf /\ IsOk(_extract_text(query.doc))) =>
               LET st == ParsedLocals(query.doc)
               IN  (\/ st.coverage_limits = <<>>
                    \/ st.co_payment_percentage = NoneV
                    \/ ~InPercentRange(st.co_payment_percentage.v)) =>
                       (~IsOk(query.result) /\ query.result.exc = "ValueError")
        /\ ~IsOk(query.result) => policy_state_CURRENT_POLICY = query.previous

\* The line items of the bill on which analyze_cost_efficiency raises
ComparatorFails(item) == ~IsOk(analyze_cost_efficiency(item.name, item.cost))

\* The call went through both loops: it ended at or after line 429
RanThroughAllItems ==
    \/ IsOk(frame.outcome)
    \/ frame.outcome.msg = "No valid treatments for insurance coverage"

\* C12: a call of analyze_medical_bill on a bill with treatments, one of
\* whose line items makes the comparator raise, still goes through every
\* treatment and every other item, and the item gets no warning.
C12_ComparatorFailureNeverAborts ==
    (/\ frame.pc = "done"
     /\ bill.treatments # <<>>
     /\ \E item \in Range(bill.treatments) \cup Range(bill.other_items) :
           ComparatorFails(item)) =>
        /\ RanThroughAllItems
        /\ Len(frame.coverage_breakdown) = Len(bill.treatments)
        /\ \A w \in Range(frame.cost_efficiency_warnings) :
              ~ComparatorFails([name |-> w.item_name, cost |-> w.billed_cost])

\* The excluded_items entries the policy's exclusions call for, in bill order
RECURSIVE ExcludedEntries(_, _)
ExcludedEntries(policy, treatments) ==
    IF treatments = <<>> THEN <<>>
    ELSE (IF InExclusions(policy, Head(treatments).name)
          THEN <<[name |-> Head(treatments).name, cost |-> Head(treatments).cost,
                  reason |-> "policy_exclusion"]>>
          ELSE <<>>) \o ExcludedEntries(policy, Tail(treatments))

WithoutOtherItems(b) == [treatments |-> b.treatments, other_items |-> <<>>]

\* The non_payable_items entries the policy calls for, in bill order
RECURSIVE NonPayableEntries(_, _)
NonPayableEntries(policy, other_items) ==
    IF other_items = <<>> THEN <<>>
    ELSE (IF \E x \in Range(PolicyData(policy).non_payable_items) :
                SameName(x, Head(other_items).name)
          THEN <<[name |-> Head(other_items).name, cost |-> Head(other_items).cost,
                  reason |-> "non_payable_item"]>>
          ELSE <<>>) \o NonPayableEntries(policy, Tail(other_items))

\* C14: a call of analyze_medical_bill ends as the call on the same
\* treatments without other items ends: rejected as that one is, or
\* accepted with the same total_claimable_amount, co_payment_deducted,
\* excluded_items and coverage_breakdown; and non_payable_items of a result
\* has one entry, with reason "non_payable_item", per non-payable other item.
C14_OtherItemsNeverAffectCoverage ==
    frame.pc = "done" =>
        LET alone == analyze_medical_bill(CURRENT_POLICY, WithoutOtherItems(bill)).outcome
            here == frame.outcome
        IN  /\ IsOk(here) = IsOk(alone)
            /\ IsOk(here) =>
                  /\ here.val.total_claimable_amount = alone.val.total_claimable_amount
                  /\ here.val.co_payment_deducted = alone.val.co_payment_deducted
                  /\ here.val.excluded_items = alone.val.excluded_items
                  /\ here.val.coverage_breakdown = alone.val.coverage_breakdown
                  /\ here.val.non_payable_items =
                        NonPayableEntries(CURRENT_POLICY, bill.other_items)

\* The comparator returned a result for the item, with a status other than
\* within_market_range
Overpriced(item) ==
    LET analysis == analyze_cost_efficiency(item.name, item.cost)
    IN  IsOk(analysis) /\ analysis.val # NoneV
        /\ analysis.val.v.status # "within_market_range"

\* Item type, name, cost and status of the warnings the overpriced ones
\* among `items` call for, in the order of `items`
RECURSIVE WarningsFor(_, _)
WarningsFor(items, item_type) ==
    IF items = <<>> THEN <<>>
    ELSE (IF Overpriced(Head(items))
          THEN <<[item_type |-> item_type,
                  item_name |-> Head(items).name,
                  billed_cost |-> Head(items).cost,
                  status |-> analyze_cost_efficiency(Head(items).name,
                                                     Head(items).cost).val.v.status]>>
          ELSE <<>>) \o WarningsFor(Tail(items), item_type)

\* Item type, name, cost and status of a warning
WarningKey(w) ==
    [item_type |-> w.item_type, item_name |-> w.item_name,
     billed_cost |-> w.billed_cost, status |-> w.status]

HighPriority(w) ==
    /\ "priority" \in DOMAIN w
    /\ "alert" \in DOMAIN w
    /\ w.priority = "high"

\* The policy lists the name among its non-payable items
InNonPayable(policy, name) ==
    \E x \in Range(PolicyData(policy).non_payable_items) : SameName(x, name)

C17_ResultValueErrorOrWrappedError ==
    frame.pc = "done" =>
        LET outcome == frame.outcome
        IN  /\ \/ IsOk(outcome)
               \/ outcome.exc = "ValueError" /\ "cause" \notin DOMAIN outcome
               \/ /\ outcome.exc = "RuntimeError"
                  /\ "cause" \in DOMAIN outcome
                  /\ outcome.cause.exc \notin {"ValueError", "RuntimeError"}
            /\ query # NoneV =>
                  /\ IsOk(outcome) <=> query.response.status_code = 200
                  /\ (~IsOk(outcome) /\ outcome.exc = "ValueError") <=>
                        query.response.status_code = 400
                  /\ (~IsOk(outcome) /\ outcome.exc # "ValueError") <=>
                        query.response.status_code = 500
                  /\ query.response.status_code = 400 =>
                        query.response.detail = outcome.msg

\* A call that ended in a wrapped decimal.Overflow and was answered with 500
C17_Witness ==
    /\ frame.pc = "done"
    /\ ~IsOk(frame.outcome)
    /\ frame.outcome.exc = "RuntimeError"
    /\ frame.outcome.cause.exc = "Overflow"
    /\ query # NoneV
    /\ query.response.status_code = 500

\* Scenario C: General Consultation at 1000 and gloves at 150
ScenarioC ==
    [treatments |-> <<[name |-> S_General_Consultation, cost |-> Mills(1000)]>>,
     other_items |-> <<[name |-> S_Gloves, cost |-> Mills(150)]>>]

UpperChar(c) ==
    IF \E i \in DOMAIN LowerCase : LowerCase[i] = c
    THEN UpperCase[CHOOSE i \in DOMAIN LowerCase : LowerCase[i] = c]
    ELSE c

\* s with every letter in upper case
upper(s) == [i \in DOMAIN s |-> UpperChar(s[i])]

\* The stored entries whose key, in lower case, is the trimmed name in lower case
EntriesNamed(name) ==
    {e \in Range(LOCAL_COST_DATABASE) : lower(e.name) = lower(strip(name))}

\* C19: for a name that is not blank, get_local_cost_info returns the entry
\* whose key equals the trimmed name up to case, or None when there is no
\* such key (also when a key contains the name or the name contains a key);
\* the name in upper case and in lower case gets the same answer; and for a
\* name without entry analyze_cost_efficiency with a positive cost returns
\* None.
C19_LookupCaseInsensitiveExact ==
    (query # NoneV /\ query.fn = "get_local_cost_info" /\ NonBlank(query.item_name)) =>
        /\ IsOk(query.result)
        /\ IF EntriesNamed(query.item_name) = {}
           THEN query.result.val = NoneV /\ query.analysis = Ok(NoneV)
           ELSE /\ query.result.val # NoneV
                /\ query.result.val.v \in EntriesNamed(query.item_name)
        /\ get_local_cost_info(upper(query.item_name)) = query.result
        /\ get_local_cost_info(lower(query.item_name)) = query.result

\* The lookup of a padded name in other case than the key found the entry
C19_Witness ==
    /\ query # NoneV
    /\ query.fn = "get_local_cost_info"
    /\ query.item_name = S_mri_scan_padded
    /\ query.result.val # NoneV
    /\ query.result.val.v.name = S_MRI_Scan

\* C20: the policy in the active-policy slot, or the built-in policy while
\* the slot is empty, has only non-negative coverage limits and a co-payment
\* percentage within [0, 100]; so has every policy a successful upload
\* returned.
C20_ActivePolicySatisfiesDataModel ==
    /\ LET p == PolicyData(policy_state_CURRENT_POLICY)
       IN  /\ \A x \in Range(p.coverage_limits) : x[2] # NaN /\ x[2] >= 0
           /\ InPercentRange(p.co_payment_percentage)
    /\ (Uploaded /\ IsOk(query.result)) =>
           \A x \in Range(query.result.val.coverage_limits) : x[2] # NaN /\ x[2] >= 0

\* A call of analyze_cost_efficiency that found the item in the reference data
Analysed ==
    /\ query # NoneV
    /\ query.fn = "analyze_cost_efficiency"
    /\ IsOk(query.result)
    /\ query.result.val # NoneV

\* C21: every entry of the reference data store has min_cost <= average_cost
\* <= max_cost, and so has every analysis analyze_cost_efficiency returns:
\* the bands within market range, slightly overpriced and highly overpriced
\* follow each other in this order.
C21_ReferenceDataOrdered ==
    /\ \A e \in Range(LOCAL_COST_DATABASE) :
           e.min_cost <= e.average_cost /\ e.average_cost <= e.max_cost
    /\ Analysed =>
           LET a == query.result.val.v
           IN  /\ a.min_cost <= a.average_cost /\ a.average_cost <= a.max_cost
               /\ (a.status = "highly_overpriced") => a.billed_cost > a.average_cost

\* Gloves, average 100 and maximum 200, billed 75 were within market range
C21_Witness ==
    /\ Analysed
    /\ query.item_name = S_GLOVES
    /\ query.billed_cost = Mills(75)
    /\ query.result.val.v.status = "within_market_range"
    /\ query.result.val.v.average_cost < query.result.val.v.max_cost

\* The reference data of `name`, when stored
InfoOf(name) == get_local_cost_info(name).val.v

\* The call analyze_cost_efficiency(name, cost) returned status `status`
StatusIs(name, cost, status) ==
    (/\ query # NoneV
     /\ query.fn = "analyze_cost_efficiency"
     /\ query.item_name = name
     /\ query.billed_cost = Mills(cost)) =>
        (Analysed /\ query.result.val.v.status = status)

\* C22: the reference data holds MRI Scan with average 9000, min 7000, max
\* 11000 and Blood Test with average 800, min 500, max 1200; and
\* analyze_cost_efficiency returns highly_overpriced for MRI Scan at 12000
\* and at 11001, slightly_overpriced for MRI Scan at 11000 and Blood Test at
\* 1000, within_market_range for Blood Test at 800.
C22_ReferenceDataOfTheTests ==
    /\ InfoOf(S_MRI_Scan).average_cost = 9000
    /\ InfoOf(S_MRI_Scan).min_cost = 7000
    /\ InfoOf(S_MRI_Scan).max_cost = 11000
    /\ InfoOf(S_Blood_Test).average_cost = 800
    /\ InfoOf(S_Blood_Test).min_cost = 500
    /\ InfoOf(S_Blood_Test).max_cost = 1200
    /\ StatusIs(S_MRI_Scan, 12000, "highly_overpriced")
    /\ StatusIs(S_MRI_Scan, 11001, "highly_overpriced")
    /\ StatusIs(S_MRI_Scan, 11000, "slightly_overpriced")
    /\ StatusIs(S_Blood_Test, 1000, "slightly_overpriced")
    /\ StatusIs(S_Blood_Test, 800, "within_market_range")

\* C23: under the built-in policy get_coverage_limit is 2000 for General
\* Consultation, 1500 for Blood Test and None for a name without limit, and
\* get_co_payment_percentage is 10.
C23_BuiltInPolicyOfTheTests ==
    (query # NoneV /\ query.fn = "policy") =>
        /\ (query.name = S_General_Consultation) =>
               query.get_coverage_limit = Ok(Some(Mills(2000)))
        /\ (query.name = S_Blood_Test) =>
               query.get_coverage_limit = Ok(Some(Mills(1500)))
        /\ (query.name = S_Unknown_Treatment) =>
               query.get_coverage_limit = Ok(NoneV)
        /\ query.get_co_payment_percentage = Percent(10)

\* C29: the upload of Lines_DocCoverageNames succeeds with exactly the
\* limits its coverage lines name: MRI Scan 12000 (the later line replaces
\* 10,000), X-Ray 5000 and Full Coverage Checkup 3000; the line without
\* separator is skipped, and no exclusion, non-payable item or limit of the
\* built-in policy is in the result.
C29_EveryCoverageLineYieldsItsLimit ==
    (Uploaded /\ query.doc.lines = Lines_DocCoverageNames) =>
        /\ IsOk(query.result)
        /\ Range(query.result.val.coverage_limits) =
               { <<S_MRI_Scan, Mills(12000)>>,
                 << <<"X","-","R","a","y">>, Mills(5000)>>,
                 << <<"F","u","l","l"," ","C","o","v","e","r","a","g","e"," ",
                      "C","h","e","c","k","u","p">>, Mills(3000)>> }
        /\ query.result.val.exclusions = <<>>
        /\ query.result.val.non_payable_items = <<>>

RECURSIVE SumCost(_)
SumCost(items) ==
    IF items = <<>> THEN 0 ELSE Head(items).cost + SumCost(Tail(items))

\* Amounts in mills that have at most two decimal places
WholeCents(x) == x % 10 = 0

C28_ReportShowsTheResult ==
    (query # NoneV /\ query.fn = "download_report") =>
        LET result == frame.outcome.val
        IN  /\ query.data.analysis = result
            /\ query.report.final_claimable = Quantize(result.total_claimable_amount)
            /\ query.report.total_bill = Quantize(result.total_bill_amount)
            /\ query.report.co_payment = Quantize(result.co_payment_deducted)

\* The records of the store
StoredRecords == Range(get_all_records(billing_service))

\* The records an on-demand detection run goes through
AnalysedRecords(request) ==
    IF request.record_ids # NoneV /\ request.record_ids.v # <<>>
    THEN {r \in StoredRecords : r.record_id \in Range(request.record_ids.v)}
    ELSE StoredRecords

\* The anomalies of kind `type` among `anomalies` that are about `record`
FlagsOf(anomalies, record, type) ==
    {k \in DOMAIN anomalies :
        anomalies[k].record_id = record.record_id /\ anomalies[k].anomaly_type = type}

Detected == query # NoneV /\ query.fn = "detect_anomalies"

\* The service code is in the table and the amount above twice the typical one
AboveTwiceTypical(record) ==
    /\ record.service_code \in DOMAIN typical_amounts
    /\ record.amount > 2 * typical_amounts[record.service_code]

\* C26: the anomalies stored for a record at its creation, and those an
\* on-demand run without severity filter returns for it, hold an overcharge
\* flag, with severity high and confidence 0.75, if and only if the
\* record's service code is in the table of typical amounts and its amount
\* is above twice the typical amount.
C26_OverchargeIffAboveTwiceTypical ==
    /\ \A r \in StoredRecords :
          LET stored == get_record_anomalies(billing_service, r.record_id)
          IN  /\ FlagsOf(stored, r, "overcharge") # {} <=> AboveTwiceTypical(r)
              /\ \A k \in FlagsOf(stored, r, "overcharge") :
                    stored[k].severity = "high" /\ stored[k].confidence_score = 75
    /\ (Detected /\ query.request.severity_filter = NoneV) =>
          \A r \in AnalysedRecords(query.request) :
              LET found == query.result.anomalies
              IN  /\ FlagsOf(found, r, "overcharge") # {} <=> AboveTwiceTypical(r)
                  /\ \A k \in FlagsOf(found, r, "overcharge") :
                        found[k].severity = "high" /\ found[k].confidence_score = 75

\* The store holds a record billed exactly twice the typical amount without
\* overcharge flag, one billed a cent more with the flag, and one billed as
\* much under a service code that is not in the table, without it
C26_Witness ==
    /\ \E r \in StoredRecords :
          /\ r.service_code = "99213" /\ r.amount = Mills(300)
          /\ FlagsOf(get_record_anomalies(billing_service, r.record_id), r, "overcharge") = {}
    /\ \E r \in StoredRecords :
          /\ r.service_code = "99213" /\ r.amount = Mills(300) + 10
          /\ FlagsOf(get_record_anomalies(billing_service, r.record_id), r, "overcharge") # {}
    /\ \E r \in StoredRecords :
          /\ r.service_code = "A0001" /\ r.amount = Mills(300) + 10
          /\ FlagsOf(get_record_anomalies(billing_service, r.record_id), r, "overcharge") = {}

\* Some other stored record has the patient and the service code of
\* `record` and a date of service less than one day (24 hours) from its own
HasNearTwin(record) ==
    \E other \in StoredRecords :
        /\ other.record_id # record.record_id
        /\ other.patient_id = record.patient_id
        /\ other.service_code = record.service_code
        /\ other.date_of_service - record.date_of_service < 24
        /\ record.date_of_service - other.date_of_service < 24

\* Among `anomalies`, `record` has one duplicate flag of medium severity if
\* it has a near twin, and no duplicate flag otherwise
DuplicateRule(anomalies, record) ==
    /\ Cardinality(FlagsOf(anomalies, record, "duplicate")) =
          (IF HasNearTwin(record) THEN 1 ELSE 0)
    /\ \A k \in FlagsOf(anomalies, record, "duplicate") :
          anomalies[k].severity = "medium"

\* C24: the anomalies stored for a record when it is created, and those an
\* on-demand run without severity filter returns for a record, hold a
\* duplicate flag of medium severity if and only if another stored record
\* has the same patient and service code and a date of service less than
\* one day earlier or later; and never more than one such flag.
C24_DuplicateIffTwinWithinOneDay ==
    /\ (query # NoneV /\ query.fn = "create_record") =>
          DuplicateRule(get_record_anomalies(billing_service, query.result.record_id),
                        query.result)
    /\ (Detected /\ query.request.severity_filter = NoneV) =>
          \A r \in AnalysedRecords(query.request) :
              DuplicateRule(query.result.anomalies, r)

\* C25: every anomaly detect_anomalies returns has a confidence score of at
\* least request.min_confidence and, when the request has a severity
\* filter, a severity of the filter; and anomalies_detected is the number
\* of anomalies returned.
C25_DetectionAppliesBothFilters ==
    Detected =>
        LET found == query.result.anomalies
        IN  /\ \A k \in DOMAIN found :
                  /\ found[k].confidence_score >= query.request.min_confidence
                  /\ query.request.severity_filter # NoneV =>
                        found[k].severity \in Range(query.request.severity_filter.v)
            /\ query.result.anomalies_detected = Len(found)

\* A record returned by create_record is the one get_record finds under its id
\* as long as the store exists: no step changes or removes a stored record,
\* and get_record, get_all_records, detect_anomalies and get_record_anomalies
\* change neither the records nor the stored anomalies.
StoreKeepsRecords ==
    /\ \A r \in StoredRecords : get_record(billing_service', r.record_id) = r
    /\ (query' # NoneV /\ query'.fn # "create_record") => billing_service' = billing_service

\* C27: the store is append-only by id: every record ever created is still
\* returned unchanged by get_record under its id after any sequence of
\* operations, and the read and detect operations leave the records and the
\* stored anomaly lists unchanged.
C27_StoreAppendOnlyById == [][StoreKeepsRecords]_vars

====
